---- MODULE Spec2Model ----
(***************************************************************************)
(* Model of the git folder synchronisation engine of Stik                  *)
(* (src-tauri/src/commands/git_share.rs, with the folder-name validator of *)
(* folders.rs and the settings hook of settings.rs).                       *)
(*                                                                         *)
(* Conventions                                                             *)
(*   - a Rust String is a sequence of one-character strings;               *)
(*   - Option<T> is a sequence of length <= 1: None == <<>>, Some(x)==<<x>>*)
(*   - git output text is a sequence of tokens (known phrases, whitespace, *)
(*     other words), so that contains/to_lowercase/trim act on it;         *)
(*   - a file content is a sequence of bytes.                              *)
(***************************************************************************)
EXTENDS Integers, Sequences, FiniteSets, TLC

VARIABLES settings, sender, queue, status, sync_mutex, worker, pc, cfg,
          trigger, result, cmds, loc, repo, now, hist, probe

vars == <<settings, sender, queue, status, sync_mutex, worker, pc, cfg,
          trigger, result, cmds, loc, repo, now, hist, probe>>

----------------------------------------------------------------------------
(* Option and Result values *)

None == <<>>

Some(x) == <<x>>

IsSome(o) == Len(o) = 1

Unwrap(o) == o[1]

Ok == [ok |-> TRUE, err |-> None]

Err(e) == [ok |-> FALSE, err |-> Some(e)]

----------------------------------------------------------------------------
(* Strings: character sequences *)

NUL == "NUL"

IsWhitespace(c) == c \in {" ", "\t", "\n", "\r"}

RECURSIVE TrimStart(_)
TrimStart(s) ==
    IF s # <<>> /\ IsWhitespace(Head(s)) THEN TrimStart(Tail(s)) ELSE s

RECURSIVE TrimEnd(_)
TrimEnd(s) ==
    IF s # <<>> /\ IsWhitespace(s[Len(s)])
    THEN TrimEnd(SubSeq(s, 1, Len(s) - 1))
    ELSE s

\* str::trim
Trim(s) == TrimEnd(TrimStart(s))

\* str::contains(char)
ContainsChar(s, c) == \E i \in 1..Len(s) : s[i] = c

\* str::contains(&str) for a pattern given as a character sequence
ContainsStr(s, p) ==
    \E i \in 0..(Len(s) - Len(p)) : SubSeq(s, i + 1, i + Len(p)) = p

StartsWithChar(s, c) == s # <<>> /\ s[1] = c

S_main == <<"m", "a", "i", "n">>

S_Inbox == <<"I", "n", "b", "o", "x">>

S_Work == <<"W", "o", "r", "k">>

S_url == <<"u", "r", "l">>

S_url2 == <<"u", "r", "l", "2">>

----------------------------------------------------------------------------
(* An error string is the sequence of the pieces its format! joins *)

\* folders.rs
is_visible_folder_name(name) ==
    LET trimmed == Trim(name)
    IN  trimmed # <<>> /\ ~StartsWithChar(trimmed, ".")

validate_name(name) ==
    IF \/ ContainsStr(name, <<".", ".">>)
       \/ ContainsChar(name, "/")
       \/ ContainsChar(name, "\\")
       \/ ContainsChar(name, NUL)
    THEN Err(<<"Invalid name: must not contain '..', '/', '\\', or null bytes">>)
    ELSE IF Trim(name) = <<>>
    THEN Err(<<"Name cannot be empty">>)
    ELSE IF ~is_visible_folder_name(name)
    THEN Err(<<"Invalid name: hidden folders are not supported">>)
    ELSE Ok

\* a faulty variant of validate_git_config_fields: the branch is not looked at
validate_without_branch(config) ==
    IF Trim(config.shared_folder) = <<>>
    THEN Err(<<"Pick a folder to link before enabling Git sharing">>)
    ELSE IF Trim(config.remote_url) = <<>>
    THEN Err(<<"Remote URL is required for Git sharing">>)
    ELSE validate_name(Trim(config.shared_folder))

validate_git_config_fields(config) ==
    IF Trim(config.shared_folder) = <<>>
    THEN Err(<<"Pick a folder to link before enabling Git sharing">>)
    ELSE IF Trim(config.remote_url) = <<>>
    THEN Err(<<"Remote URL is required for Git sharing">>)
    ELSE IF Trim(config.branch) = <<>>
    THEN Err(<<"Branch cannot be empty">>)
    ELSE validate_name(Trim(config.shared_folder))

normalized_branch(branch) ==
    LET trimmed == Trim(branch)
    IN  IF trimmed = <<>> THEN S_main ELSE trimmed

normalized_optional(value) ==
    LET trimmed == Trim(value)
    IN  IF trimmed = <<>> THEN None ELSE Some(trimmed)

----------------------------------------------------------------------------
(* Output of the git subprocess (GitCommandOutput) and its text *)

\* run_git: Err when the process cannot be launched, else the exit status
\* and the lossily decoded output
Out(code, stdout, stderr) ==
    [launched |-> TRUE, status_code |-> code, stdout |-> stdout, stderr |-> stderr]

LaunchFailed ==
    [launched |-> FALSE, status_code |-> -1, stdout |-> <<>>, stderr |-> <<>>]

E_launch == <<"Git command failed to launch: ", "os error">>

\* str::to_lowercase on output text, token by token
LowerToken(tok) ==
    CASE tok = "Nothing to commit" -> "nothing to commit"
      [] tok = "Non-Fast-Forward" -> "non-fast-forward"
      [] tok = "Fetch first" -> "fetch first"
      [] tok = "Couldn't find remote ref" -> "couldn't find remote ref"
      [] tok = "Refusing to merge unrelated histories" -> "refusing to merge unrelated histories"
      [] tok = "Not a git repository" -> "not a git repository"
      [] tok = "CONFLICT" -> "conflict"
      [] OTHER -> tok

\* the text as it is, case kept
to_lowercase_keeps_case(text) == text

to_lowercase(text) == [i \in 1..Len(text) |-> LowerToken(text[i])]

\* str::contains on output text
contains(text, phrase) == \E i \in 1..Len(text) : text[i] = phrase

command_error_message(output) ==
    LET stderr == Trim(output.stderr)
        stdout == Trim(output.stdout)
    IN  IF stderr # <<>> THEN stderr
        ELSE IF stdout # <<>> THEN stdout
        ELSE <<"unknown git error">>

\* String::from_utf8_lossy: every invalid byte becomes U+FFFD
from_utf8_lossy(bytes) ==
    [i \in 1..Len(bytes) |-> IF bytes[i] < 128 THEN bytes[i] ELSE 65533]

RECURSIVE as_bytes(_)
\* str::as_bytes: the UTF-8 encoding of the string
as_bytes(s) ==
    IF s = <<>> THEN <<>>
    ELSE (IF Head(s) < 128 THEN <<Head(s)>> ELSE <<239, 191, 189>>) \o as_bytes(Tail(s))

----------------------------------------------------------------------------
(* The repository the git subprocess acts on: the linked folder, its .git, *)
(* the remote named origin.  Each Git_* operator gives the outcomes of one *)
(* run_git call as a set of [out, repo] pairs.                             *)

P_a_md == <<"a", ".", "m", "d">>

P_b == <<"b">>

Paths == {P_a_md, P_b}

B_local == <<108>>

B_remote == <<114>>

B_binary == <<255, 108>>

B_markers == <<60, 61, 62>>

\* the versions of one unmerged path: stage 2 (ours) and stage 3 (theirs)
Stages(s2, s3) == [s2 |-> s2, s3 |-> s3]

StageChoices ==
    { Stages(Some(B_local), Some(B_remote)),
      Stages(Some(B_binary), Some(B_remote)),
      Stages(None, Some(B_remote)),
      Stages(Some(B_local), None) }

\* the conflicts a merge of diverged histories can produce
ConflictSets(PS, SC) == UNION { [D -> SC] : D \in SUBSET PS }

NoFiles == [p \in {} |-> <<>>]

FreshRepo ==
    [ folder |-> FALSE, git |-> FALSE, user_name |-> FALSE, user_email |-> FALSE,
      gitignore |-> None, origin |-> None, head |-> None,
      dirty |-> FALSE, ahead |-> FALSE, merging |-> FALSE,
      unmerged |-> NoFiles, files |-> NoFiles,
      remote_branch |-> FALSE, behind |-> FALSE, unrelated |-> FALSE,
      remote_conflicts |-> {NoFiles}, faults |-> 0 ]

Fatal == Out(128, <<>>, <<"fatal", "\n">>)

\* the repository after one of the faults the environment still has in store
Spent(r) == [r EXCEPT !.faults = @ - 1]

\* git cannot be launched
LaunchFault(r) == IF r.faults > 0 THEN { [out |-> LaunchFailed, repo |-> Spent(r)] } ELSE {}

\* a call that fails for a reason outside the repository state
Faults(r) ==
    LaunchFault(r) \cup (IF r.faults > 0 THEN { [out |-> Fatal, repo |-> Spent(r)] } ELSE {})

\* the outcomes of a filesystem call: it may fail while faults are in store
IoOutcomes(r) == IF r.faults > 0 THEN BOOLEAN ELSE {TRUE}

Done(r) == [out |-> Out(0, <<>>, <<>>), repo |-> r]

S_master == <<"m", "a", "s", "t", "e", "r">>

\* git init -b <branch>: a git that does not know -b rejects it
Git_init_b(r, branch) ==
    { Done([r EXCEPT !.git = TRUE, !.head = Some(branch)]),
      [out |-> Out(129, <<>>, <<"error: unknown switch `b'">>), repo |-> r] }
    \cup LaunchFault(r)

\* git init
Git_init(r) ==
    { Done([r EXCEPT !.git = TRUE, !.head = Some(S_master)]) } \cup Faults(r)

\* git checkout -B <branch>
Git_checkout_B(r, branch) ==
    (IF r.git THEN { Done([r EXCEPT !.head = Some(branch)]) } ELSE {}) \cup Faults(r)

\* git config --get user.name / user.email
Git_config_get(r, isset) ==
    { IF r.git /\ isset
      THEN [out |-> Out(0, <<"Stik", "\n">>, <<>>), repo |-> r]
      ELSE [out |-> Out(1, <<>>, <<>>), repo |-> r] }
    \cup LaunchFault(r)

\* git config user.name Stik
Git_config_name(r) ==
    (IF r.git THEN { Done([r EXCEPT !.user_name = TRUE]) } ELSE {}) \cup Faults(r)

\* git config user.email stik@local.invalid
Git_config_email(r) ==
    (IF r.git THEN { Done([r EXCEPT !.user_email = TRUE]) } ELSE {}) \cup Faults(r)

\* git remote get-url origin
Git_remote_get_url(r) ==
    { IF r.git /\ IsSome(r.origin)
      THEN [out |-> Out(0, Unwrap(r.origin) \o <<"\n">>, <<>>), repo |-> r]
      ELSE [out |-> Out(2, <<>>, <<"error: No such remote 'origin'">>), repo |-> r] }
    \cup LaunchFault(r)

\* git remote add origin <url> / git remote set-url origin <url>
Git_remote_set(r, url) ==
    (IF r.git THEN { Done([r EXCEPT !.origin = Some(url)]) } ELSE {}) \cup Faults(r)

\* git add -A: stages everything, which also marks unmerged paths resolved
Git_add_all(r) ==
    (IF r.git THEN { Done([r EXCEPT !.unmerged = NoFiles]) } ELSE {}) \cup Faults(r)

\* git status --porcelain
Git_status(r) ==
    (IF r.git
     THEN { IF r.dirty \/ r.merging
            THEN [out |-> Out(0, <<"M  note.md", "\n">>, <<>>), repo |-> r]
            ELSE [out |-> Out(0, <<>>, <<>>), repo |-> r] }
     ELSE {}) \cup Faults(r)

\* git commit -m <message>
Git_commit(r) ==
    (IF ~r.git THEN {}
     ELSE IF DOMAIN r.unmerged # {}
     THEN { [out |-> Out(128, <<>>, <<"error: Committing is not possible because you have unmerged files">>),
             repo |-> r] }
     ELSE IF r.dirty \/ r.merging
     THEN { Done([r EXCEPT !.dirty = FALSE, !.merging = FALSE, !.ahead = TRUE]) }
     ELSE { [out |-> Out(1, <<phrase, "\n">>, <<>>), repo |-> r] :
            phrase \in {"nothing to commit", "Nothing to commit"} })
    \cup Faults(r)

\* git pull --no-rebase [--allow-unrelated-histories] origin <branch>;
\* r.remote_conflicts: the sets of paths on which commits of the remote can
\* conflict with local commits the remote does not have
Git_pull(r, allow_unrelated) ==
    (IF ~r.git
     THEN { [out |-> Out(128, <<>>, <<"fatal:", "not a git repository">>), repo |-> r] }
     ELSE IF r.merging
     THEN { [out |-> Out(128, <<>>, <<"error: You have not concluded your merge">>), repo |-> r] }
     ELSE IF ~r.remote_branch
     THEN { [out |-> Out(1, <<>>, <<"fatal:", phrase, "\n">>), repo |-> r] :
            phrase \in {"couldn't find remote ref", "Couldn't find remote ref",
                        "no such ref was fetched"} }
     ELSE IF ~r.behind
     THEN { [out |-> Out(0, <<"Already up to date.", "\n">>, <<>>), repo |-> r] }
     ELSE IF r.unrelated /\ ~allow_unrelated
     THEN { [out |-> Out(128, <<>>, <<"fatal:", "refusing to merge unrelated histories", "\n">>),
             repo |-> r] }
     ELSE { IF ~r.ahead \/ DOMAIN incoming = {}
            THEN Done([r EXCEPT !.behind = FALSE, !.unrelated = FALSE])
            ELSE [out |-> Out(1, <<"CONFLICT", "Automatic merge failed", "\n">>, <<>>),
                  repo |-> [r EXCEPT !.behind = FALSE, !.unrelated = FALSE,
                                     !.merging = TRUE, !.unmerged = incoming,
                                     !.files = [p \in DOMAIN r.files \cup DOMAIN incoming |->
                                                  IF p \in DOMAIN incoming
                                                  THEN Some(B_markers) ELSE r.files[p]]]]
            : incoming \in r.remote_conflicts })
    \cup Faults(r)

\* git push -u origin <branch>
Git_push(r) ==
    (IF ~r.git THEN {}
     ELSE IF r.remote_branch /\ r.behind
     THEN { [out |-> Out(1, <<>>, <<"! [rejected]", "fetch first", "\n">>), repo |-> r],
            [out |-> Out(1, <<>>, <<"! [rejected]", "non-fast-forward", "\n">>), repo |-> r] }
     ELSE { Done([r EXCEPT !.ahead = FALSE, !.remote_branch = TRUE]) })
    \cup Faults(r)

RECURSIVE SetToSeq(_)
SetToSeq(S) ==
    IF S = {} THEN <<>>
    ELSE LET x == CHOOSE y \in S : TRUE IN <<x>> \o SetToSeq(S \ {x})

\* git diff --name-only --diff-filter=U: one unmerged path per line
Git_diff_unmerged(r) ==
    (IF r.git
     THEN { [out |-> Out(0, SetToSeq(DOMAIN r.unmerged), <<>>), repo |-> r] }
     ELSE {}) \cup Faults(r)

\* git show :<stage>:<path>
Git_show(r, stage, path) ==
    LET blob == IF path \in DOMAIN r.unmerged
                THEN (IF stage = 2 THEN r.unmerged[path].s2 ELSE r.unmerged[path].s3)
                ELSE None
    IN  { IF IsSome(blob)
          THEN [out |-> Out(0, from_utf8_lossy(Unwrap(blob)), <<>>), repo |-> r]
          ELSE [out |-> Out(128, <<>>, <<"fatal: path is not in the index at that stage">>),
                repo |-> r] }
        \cup LaunchFault(r)

Without(f, x) == [y \in DOMAIN f \ {x} |-> f[y]]

With(f, x, v) == [y \in DOMAIN f \cup {x} |-> IF y = x THEN v ELSE f[y]]

\* git add -- <path>: stages the path, which marks it resolved
Git_add_path(r, path) ==
    (IF r.git THEN { Done([r EXCEPT !.unmerged = Without(r.unmerged, path)]) } ELSE {})
    \cup Faults(r)

\* git checkout --theirs -- <path>: writes the stage 3 blob to the work tree
Git_checkout_theirs(r, path) ==
    (IF path \in DOMAIN r.unmerged /\ IsSome(r.unmerged[path].s3)
     THEN { Done([r EXCEPT !.files = With(r.files, path, r.unmerged[path].s3)]) }
     ELSE { [out |-> Out(1, <<>>, <<"error: path does not have their version">>), repo |-> r] })
    \cup Faults(r)

----------------------------------------------------------------------------
(* Program state *)

Callers == {"c1"}

Threads == {"worker"} \cup Callers

\* GitSharingSettings
Config(enabled, folder, remote, branch, interval) ==
    [ enabled |-> enabled, shared_folder |-> folder, remote_url |-> remote,
      branch |-> branch, sync_interval_seconds |-> interval ]

DEFAULT_DEBOUNCE_SECONDS == 30

DEFAULT_PERIODIC_SYNC_SECONDS == 300

MIN_PERIODIC_SYNC_SECONDS == 60

\* impl Default for GitSharingSettings
DefaultGitSharingSettings == Config(FALSE, S_Inbox, <<>>, S_main, 300)

\* impl Default for RuntimeStatus
DefaultRuntimeStatus ==
    [ pending_changes |-> FALSE, syncing |-> FALSE,
      last_sync_at |-> None, last_error |-> None ]

NoOutput == Out(0, <<>>, <<>>)

\* the locals of the call a thread is executing
NoLocals ==
    [ op |-> "none", pull_from |-> "run_sync_operation", pull_output |-> NoOutput,
      conflicted |-> <<>>, i |-> 0, timestamp |-> <<>>,
      duplicate_content |-> <<>>, stages |-> NoFiles, rebuilt |-> FALSE,
      push_output |-> NoOutput,
      undisturbed |-> FALSE, disturbed |-> FALSE, faults_at_start |-> 0 ]

\* the locals at the start of a run_sync_operation call with configuration c;
\* undisturbed, disturbed and faults_at_start are history: whether the call
\* follows a successful sync of the same configuration with no change since
\* that sync began, whether a change has happened during this call, and the
\* faults still in store
SyncLocals(c) ==
    [NoLocals EXCEPT !.op = "sync",
                     !.undisturbed = hist.quiet /\ hist.last_cfg = c,
                     !.faults_at_start = repo.faults]

\* update_runtime_status / snapshot_runtime_status take the status lock for
\* the one read or write they make; each is one atomic step here
SetLastError(st, e) == [st EXCEPT !.last_error = Some(e)]

\* the command log of a thread's current attempt
Log(t, entry) == cmds' = [cmds EXCEPT ![t] = Append(@, entry)]

Goto(t, label) == pc' = [pc EXCEPT ![t] = label]

\* an Err inside the closure of run_sync_operation (the ? operator) ends it
Raise(t, e) ==
    /\ result' = [result EXCEPT ![t] = Err(e)]
    /\ Goto(t, IF loc[t].op = "prepare" THEN "gpr_return" ELSE "rso_end")

\* run_git_success
run_git_success(output, context) ==
    IF ~output.launched THEN Err(E_launch)
    ELSE IF output.status_code = 0 THEN Ok
    ELSE Err(<<"Failed to ", context, ": ">> \o command_error_message(output))

----------------------------------------------------------------------------
(* run_sync_operation: validation, the sync mutex, the status updates *)

rso_validate(t) ==
    /\ pc[t] = "rso_validate"
    /\ LET v == validate_git_config_fields(cfg[t])
       IN  IF v.ok
           THEN Goto(t, "rso_lock") /\ UNCHANGED result
           ELSE /\ result' = [result EXCEPT ![t] = v]
                /\ Goto(t, "rso_return")
    /\ UNCHANGED <<settings, sender, queue, status, sync_mutex, worker, cfg,
                   trigger, cmds, loc, repo, now, hist, probe>>

\* a faulty variant of rso_lock: the guard is taken without waiting for it
rso_lock_unguarded(t) ==
    /\ pc[t] = "rso_lock"
    /\ sync_mutex' = Some(t)
    /\ Goto(t, "rso_begin")
    /\ UNCHANGED <<settings, sender, queue, status, worker, cfg, trigger,
                   result, cmds, loc, repo, now, hist, probe>>

\* sync_mutex().lock(): blocks while another thread holds the guard
rso_lock(t) ==
    /\ pc[t] = "rso_lock"
    /\ sync_mutex = None
    /\ sync_mutex' = Some(t)
    /\ Goto(t, "rso_begin")
    /\ UNCHANGED <<settings, sender, queue, status, worker, cfg, trigger,
                   result, cmds, loc, repo, now, hist, probe>>

rso_begin(t) ==
    /\ pc[t] = "rso_begin"
    /\ status' = [status EXCEPT !.syncing = TRUE, !.last_error = None]
    /\ Goto(t, "linked_folder_path")
    /\ UNCHANGED <<settings, sender, queue, sync_mutex, worker, cfg, trigger,
                   result, cmds, loc, repo, now, hist, probe>>

\* linked_folder_path -> resolve_folder_path: validate_name, get_stik_folder,
\* create_dir_all
linked_folder_path(t) ==
    /\ pc[t] = "linked_folder_path"
    /\ LET v == validate_name(Trim(cfg[t].shared_folder))
       IN  IF ~v.ok
           THEN Raise(t, Unwrap(v.err)) /\ UNCHANGED <<repo, cmds>>
           ELSE \E io_ok \in IoOutcomes(repo) :
                  IF io_ok
                  THEN /\ repo' = [repo EXCEPT !.folder = TRUE]
                       /\ Log(t, "create_dir_all")
                       /\ Goto(t, "erd_create_dir")
                       /\ UNCHANGED result
                  ELSE Raise(t, <<"io error">>) /\ repo' = Spent(repo) /\ UNCHANGED cmds
    /\ UNCHANGED <<settings, sender, queue, status, sync_mutex, worker, cfg,
                   trigger, loc, now, hist, probe>>

\* a faulty variant of rso_end: a sync that succeeds also clears pending_changes
rso_end_clears_pending(t) ==
    /\ pc[t] = "rso_end"
    /\ status' = IF result[t].ok
                 THEN [status EXCEPT !.syncing = FALSE,
                                     !.last_sync_at = Some(now),
                                     !.last_error = None,
                                     !.pending_changes = FALSE]
                 ELSE [status EXCEPT !.syncing = FALSE,
                                     !.last_error = result[t].err]
    /\ cmds' = [cmds EXCEPT ![t] = <<>>]
    /\ loc' = [loc EXCEPT ![t] = [NoLocals EXCEPT !.op = loc[t].op]]
    /\ Goto(t, "rso_unlock")
    /\ UNCHANGED <<settings, sender, queue, sync_mutex, worker, cfg, trigger,
                   result, repo, now, hist, probe>>

\* a faulty variant of rso_end: a failed closure returns its error at once
\* and leaves syncing set
rso_end_early_return(t) ==
    /\ pc[t] = "rso_end"
    /\ status' = IF result[t].ok
                 THEN [status EXCEPT !.syncing = FALSE,
                                     !.last_sync_at = Some(now),
                                     !.last_error = None]
                 ELSE [status EXCEPT !.last_error = result[t].err]
    /\ cmds' = [cmds EXCEPT ![t] = <<>>]
    /\ loc' = [loc EXCEPT ![t] = [NoLocals EXCEPT !.op = loc[t].op]]
    /\ Goto(t, "rso_unlock")
    /\ UNCHANGED <<settings, sender, queue, sync_mutex, worker, cfg, trigger,
                   result, repo, now, hist, probe>>

\* a faulty variant of rso_end: the time of the attempt is recorded whatever
\* its result
rso_end_stamps_failure(t) ==
    /\ pc[t] = "rso_end"
    /\ status' = IF result[t].ok
                 THEN [status EXCEPT !.syncing = FALSE,
                                     !.last_sync_at = Some(now),
                                     !.last_error = None]
                 ELSE [status EXCEPT !.syncing = FALSE,
                                     !.last_sync_at = Some(now),
                                     !.last_error = result[t].err]
    /\ cmds' = [cmds EXCEPT ![t] = <<>>]
    /\ loc' = [loc EXCEPT ![t] = [NoLocals EXCEPT !.op = loc[t].op]]
    /\ Goto(t, "rso_unlock")
    /\ UNCHANGED <<settings, sender, queue, sync_mutex, worker, cfg, trigger,
                   result, repo, now, hist, probe>>

\* the closure has returned and its locals are gone; the status update of
\* lines 247-258
rso_end(t) ==
    /\ pc[t] = "rso_end"
    /\ status' = IF result[t].ok
                 THEN [status EXCEPT !.syncing = FALSE,
                                     !.last_sync_at = Some(now),
                                     !.last_error = None]
                 ELSE [status EXCEPT !.syncing = FALSE,
                                     !.last_error = result[t].err]
    /\ cmds' = [cmds EXCEPT ![t] = <<>>]
    /\ loc' = [loc EXCEPT ![t] = [NoLocals EXCEPT !.op = loc[t].op]]
    /\ Goto(t, "rso_unlock")
    /\ UNCHANGED <<settings, sender, queue, sync_mutex, worker, cfg, trigger,
                   result, repo, now, hist, probe>>

\* _sync_guard goes out of scope when run_sync_operation returns
rso_unlock_leaks_on_error(t) ==
    /\ pc[t] = "rso_unlock"
    /\ sync_mutex' = IF result[t].ok THEN None ELSE sync_mutex
    /\ Goto(t, "rso_return")
    /\ UNCHANGED <<settings, sender, queue, status, worker, cfg, trigger,
                   result, cmds, loc, repo, now, hist, probe>>

rso_unlock(t) ==
    /\ pc[t] = "rso_unlock"
    /\ sync_mutex' = None
    /\ Goto(t, "rso_return")
    /\ UNCHANGED <<settings, sender, queue, status, worker, cfg, trigger,
                   result, cmds, loc, repo, now, hist, probe>>

----------------------------------------------------------------------------
(* ensure_repository_ready *)

\* what a step leaves alone besides pc, result, cmds and repo
Frame == UNCHANGED <<settings, sender, queue, status, sync_mutex, worker, cfg,
                     trigger, loc, now, hist, probe>>

\* one run_git_success call: log it, apply it, continue or raise
GitSuccessStep(t, outcomes, entry, context, next) ==
    \E g \in outcomes :
      /\ repo' = g.repo
      /\ Log(t, entry)
      /\ LET res == run_git_success(g.out, context)
         IN  IF res.ok
             THEN Goto(t, next) /\ UNCHANGED result
             ELSE Raise(t, Unwrap(res.err))

erd_create_dir(t) ==
    /\ pc[t] = "erd_create_dir"
    /\ \E io_ok \in IoOutcomes(repo) :
         IF io_ok
         THEN /\ repo' = [repo EXCEPT !.folder = TRUE]
              /\ Log(t, "create_dir_all")
              /\ Goto(t, "erd_init")
              /\ UNCHANGED result
         ELSE Raise(t, <<"io error">>) /\ repo' = Spent(repo) /\ UNCHANGED cmds
    /\ Frame

\* if !repo_path.join(".git").exists() { run_git init -b <branch> ... }
erd_init(t) ==
    /\ pc[t] = "erd_init"
    /\ IF repo.git
       THEN Goto(t, "eli_name") /\ UNCHANGED <<repo, cmds, result>>
       ELSE \E g \in Git_init_b(repo, normalized_branch(cfg[t].branch)) :
              /\ repo' = g.repo
              /\ Log(t, "git init -b")
              /\ IF ~g.out.launched THEN Raise(t, E_launch)
                 ELSE IF g.out.status_code # 0
                 THEN Goto(t, "erd_init_plain") /\ UNCHANGED result
                 ELSE Goto(t, "eli_name") /\ UNCHANGED result
    /\ Frame

erd_init_plain(t) ==
    /\ pc[t] = "erd_init_plain"
    /\ GitSuccessStep(t, Git_init(repo), "git init",
                      "initialize git repository", "erd_init_checkout")
    /\ Frame

erd_init_checkout(t) ==
    /\ pc[t] = "erd_init_checkout"
    /\ GitSuccessStep(t, Git_checkout_B(repo, normalized_branch(cfg[t].branch)),
                      "git checkout -B", "create git branch", "eli_name")
    /\ Frame

\* git_config_value: Err on launch failure, None unless exit 0 with a value
GitValueStep(t, outcomes, entry, if_some, if_none) ==
    \E g \in outcomes :
      /\ repo' = g.repo
      /\ Log(t, entry)
      /\ IF ~g.out.launched THEN Raise(t, E_launch)
         ELSE IF g.out.status_code = 0 /\ IsSome(normalized_optional(g.out.stdout))
         THEN Goto(t, if_some) /\ UNCHANGED result
         ELSE Goto(t, if_none) /\ UNCHANGED result

\* ensure_local_identity
eli_name(t) ==
    /\ pc[t] = "eli_name"
    /\ GitValueStep(t, Git_config_get(repo, repo.user_name),
                    "git config --get user.name", "eli_email", "eli_name_set")
    /\ Frame

eli_name_set(t) ==
    /\ pc[t] = "eli_name_set"
    /\ GitSuccessStep(t, Git_config_name(repo), "git config user.name",
                      "set git user.name", "eli_email")
    /\ Frame

eli_email(t) ==
    /\ pc[t] = "eli_email"
    /\ GitValueStep(t, Git_config_get(repo, repo.user_email),
                    "git config --get user.email",
                    "ensure_repository_gitignore", "eli_email_set")
    /\ Frame

eli_email_set(t) ==
    /\ pc[t] = "eli_email_set"
    /\ GitSuccessStep(t, Git_config_email(repo), "git config user.email",
                      "set git user.email", "ensure_repository_gitignore")
    /\ Frame

S_DS_Store == <<".", "D", "S", "_", "S", "t", "o", "r", "e">>

DEFAULT_GITIGNORE_ENTRIES == <<S_DS_Store>>

RECURSIVE AddMissing(_, _)
\* the loop over DEFAULT_GITIGNORE_ENTRIES: push every entry no line equals
AddMissing(lines, entries) ==
    IF entries = <<>> THEN lines
    ELSE LET entry == Head(entries)
         IN  AddMissing(IF \E k \in 1..Len(lines) : Trim(lines[k]) = entry
                        THEN lines ELSE Append(lines, entry),
                        Tail(entries))

\* a byte that is part of no UTF-8 text
InvalidByte == "0xFF"

\* fs::read_to_string(path).ok(): None when the file is absent or its bytes
\* are not UTF-8
read_to_string(file) ==
    IF IsSome(file) /\ \A k \in DOMAIN Unwrap(file) : Unwrap(file)[k] # InvalidByte
    THEN file ELSE None

RECURSIVE Lines(_)
\* str::lines: the text split at every "\n", a "\r" before the "\n" dropped,
\* no empty line after a final "\n"
Lines(text) ==
    IF text = <<>> THEN <<>>
    ELSE LET ends == { k \in 1..Len(text) : text[k] = "\n" }
         IN  IF ends = {} THEN <<text>>
             ELSE LET k == CHOOSE e \in ends : \A j \in ends : e <= j
                      raw == SubSeq(text, 1, k - 1)
                      line == IF raw # <<>> /\ raw[Len(raw)] = "\r"
                              THEN SubSeq(raw, 1, Len(raw) - 1) ELSE raw
                  IN  <<line>> \o Lines(SubSeq(text, k + 1, Len(text)))

RECURSIVE Join(_, _)
\* lines.join(sep)
Join(ls, sep) ==
    IF ls = <<>> THEN <<>>
    ELSE IF Len(ls) = 1 THEN ls[1]
    ELSE ls[1] \o sep \o Join(Tail(ls), sep)

\* the text written back: the lines joined by "\n", closed by a "\n"
GitignoreOutput(ls) ==
    LET output == Join(ls, <<"\n">>)
    IN  IF output # <<>> /\ output[Len(output)] = "\n" THEN output
        ELSE Append(output, "\n")

\* the file is read (absent or unreadable: empty), and written only when a
\* line was added
ensure_repository_gitignore(t) ==
    /\ pc[t] = "ensure_repository_gitignore"
    /\ LET read == read_to_string(repo.gitignore)
           existing == IF IsSome(read) THEN Unwrap(read) ELSE <<>>
           lines == AddMissing(Lines(existing), DEFAULT_GITIGNORE_ENTRIES)
           changed == lines # Lines(existing)
       IN  IF changed
           THEN \E io_ok \in IoOutcomes(repo) :
                  IF io_ok
                  THEN /\ repo' = [repo EXCEPT !.gitignore = Some(GitignoreOutput(lines)),
                                               !.dirty = TRUE]
                       /\ Log(t, "write .gitignore")
                       /\ Goto(t, "configure_origin_remote")
                       /\ UNCHANGED result
                  ELSE Raise(t, <<"io error">>) /\ repo' = Spent(repo) /\ UNCHANGED cmds
           ELSE Goto(t, "configure_origin_remote") /\ UNCHANGED <<repo, cmds, result>>
    /\ Frame

\* a faulty variant of configure_origin_remote: an origin that is present is
\* always given the configured URL again
configure_origin_remote_always_sets(t) ==
    /\ pc[t] = "configure_origin_remote"
    /\ \E g \in Git_remote_get_url(repo) :
         /\ repo' = g.repo
         /\ Log(t, "git remote get-url")
         /\ LET existing_remote == IF g.out.status_code = 0
                                   THEN normalized_optional(g.out.stdout) ELSE None
            IN  IF ~g.out.launched THEN Raise(t, E_launch)
                ELSE IF existing_remote = None
                THEN Goto(t, "cor_add") /\ UNCHANGED result
                ELSE Goto(t, "cor_set_url") /\ UNCHANGED result
    /\ Frame

\* configure_origin_remote: git_remote_url, then add / set-url / nothing
configure_origin_remote(t) ==
    /\ pc[t] = "configure_origin_remote"
    /\ \E g \in Git_remote_get_url(repo) :
         /\ repo' = g.repo
         /\ Log(t, "git remote get-url")
         /\ LET existing_remote == IF g.out.status_code = 0
                                   THEN normalized_optional(g.out.stdout) ELSE None
            IN  IF ~g.out.launched THEN Raise(t, E_launch)
                ELSE IF existing_remote = None
                THEN Goto(t, "cor_add") /\ UNCHANGED result
                ELSE IF Trim(Unwrap(existing_remote)) = Trim(cfg[t].remote_url)
                THEN Goto(t, "erd_checkout") /\ UNCHANGED result
                ELSE Goto(t, "cor_set_url") /\ UNCHANGED result
    /\ Frame

cor_set_url(t) ==
    /\ pc[t] = "cor_set_url"
    /\ GitSuccessStep(t, Git_remote_set(repo, Trim(cfg[t].remote_url)),
                      "git remote set-url", "update origin remote", "erd_checkout")
    /\ Frame

cor_add(t) ==
    /\ pc[t] = "cor_add"
    /\ GitSuccessStep(t, Git_remote_set(repo, Trim(cfg[t].remote_url)),
                      "git remote add", "add origin remote", "erd_checkout")
    /\ Frame

\* a faulty variant of erd_checkout: git_prepare_repository goes on to
\* commit_local_changes as run_sync_operation does
erd_checkout_then_commit(t) ==
    /\ pc[t] = "erd_checkout"
    /\ GitSuccessStep(t, Git_checkout_B(repo, normalized_branch(cfg[t].branch)),
                      "git checkout -B", "switch repository branch", "clc_add")
    /\ Frame

\* a faulty variant of erd_checkout: run_sync_operation goes on to the pull,
\* leaving commit_local_changes out
erd_checkout_then_pull(t) ==
    /\ pc[t] = "erd_checkout"
    /\ GitSuccessStep(t, Git_checkout_B(repo, normalized_branch(cfg[t].branch)),
                      "git checkout -B", "switch repository branch",
                      IF loc[t].op = "prepare" THEN "gpr_return" ELSE "pwcr_pull")
    /\ Frame

\* the closing checkout -B; afterwards git_prepare_repository returns and
\* run_sync_operation goes on to commit_local_changes
erd_checkout(t) ==
    /\ pc[t] = "erd_checkout"
    /\ GitSuccessStep(t, Git_checkout_B(repo, normalized_branch(cfg[t].branch)),
                      "git checkout -B", "switch repository branch",
                      IF loc[t].op = "prepare" THEN "gpr_return" ELSE "clc_add")
    /\ Frame

----------------------------------------------------------------------------
(* commit_local_changes *)

clc_add(t) ==
    /\ pc[t] = "clc_add"
    /\ GitSuccessStep(t, Git_add_all(repo), "git add -A", "stage note changes",
                      "clc_status")
    /\ Frame

\* a faulty variant of clc_status: the commit is attempted on a clean tree too
clc_status_always_commit(t) ==
    /\ pc[t] = "clc_status"
    /\ \E g \in Git_status(repo) :
         /\ repo' = g.repo
         /\ Log(t, "git status")
         /\ IF ~g.out.launched THEN Raise(t, E_launch)
            ELSE IF g.out.status_code # 0
            THEN Raise(t, <<"Failed to inspect repository status: ">>
                          \o command_error_message(g.out))
            ELSE Goto(t, "clc_commit") /\ UNCHANGED result
    /\ Frame

\* git status --porcelain; a clean tree returns Ok without a commit
clc_status(t) ==
    /\ pc[t] = "clc_status"
    /\ \E g \in Git_status(repo) :
         /\ repo' = g.repo
         /\ Log(t, "git status")
         /\ IF ~g.out.launched THEN Raise(t, E_launch)
            ELSE IF g.out.status_code # 0
            THEN Raise(t, <<"Failed to inspect repository status: ">>
                          \o command_error_message(g.out))
            ELSE IF Trim(g.out.stdout) = <<>>
            THEN Goto(t, "pwcr_pull") /\ UNCHANGED result
            ELSE Goto(t, "clc_commit") /\ UNCHANGED result
    /\ Frame

clc_commit(t) ==
    /\ pc[t] = "clc_commit"
    /\ \E g \in Git_commit(repo) :
         /\ repo' = g.repo
         /\ Log(t, "git commit")
         /\ IF ~g.out.launched THEN Raise(t, E_launch)
            ELSE IF g.out.status_code = 0
            THEN Goto(t, "pwcr_pull") /\ UNCHANGED result
            ELSE IF contains(command_error_message(g.out), "nothing to commit")
            THEN Goto(t, "pwcr_pull") /\ UNCHANGED result
            ELSE Raise(t, <<"Failed to commit note changes: ">>
                          \o command_error_message(g.out))
    /\ Frame

----------------------------------------------------------------------------
(* pull_with_conflict_resolution *)

\* where an Ok of pull_with_conflict_resolution continues: push_branch after
\* the pull of run_sync_operation, the retry push inside push_branch
AfterPull(t) == IF loc[t].pull_from = "push_branch" THEN "pb_retry" ELSE "pb_push"

pwcr_pull(t) ==
    /\ pc[t] = "pwcr_pull"
    /\ \E g \in Git_pull(repo, FALSE) :
         /\ repo' = g.repo
         /\ Log(t, "git pull")
         /\ LET lower_error == to_lowercase(command_error_message(g.out))
            IN  IF ~g.out.launched THEN Raise(t, E_launch) /\ UNCHANGED loc
                ELSE IF g.out.status_code = 0
                THEN Goto(t, AfterPull(t)) /\ UNCHANGED <<result, loc>>
                ELSE IF \/ contains(lower_error, "couldn't find remote ref")
                        \/ contains(lower_error, "no such ref was fetched")
                        \/ contains(lower_error, "not a git repository")
                THEN Goto(t, AfterPull(t)) /\ UNCHANGED <<result, loc>>
                ELSE /\ loc' = [loc EXCEPT ![t].pull_output = g.out]
                     /\ UNCHANGED result
                     /\ IF contains(lower_error, "refusing to merge unrelated histories")
                        THEN Goto(t, "pwcr_retry")
                        ELSE Goto(t, "list_conflicted_files")
    /\ UNCHANGED <<settings, sender, queue, status, sync_mutex, worker, cfg,
                   trigger, now, hist, probe>>

\* the retry taking the place of the first pull in the error report
pwcr_retry_replaces_output(t) ==
    /\ pc[t] = "pwcr_retry"
    /\ \E g \in Git_pull(repo, TRUE) :
         /\ repo' = g.repo
         /\ Log(t, "git pull --allow-unrelated-histories")
         /\ loc' = [loc EXCEPT ![t].pull_output = g.out]
         /\ IF ~g.out.launched THEN Raise(t, E_launch)
            ELSE IF g.out.status_code = 0
            THEN Goto(t, AfterPull(t)) /\ UNCHANGED result
            ELSE Goto(t, "list_conflicted_files") /\ UNCHANGED result
    /\ UNCHANGED <<settings, sender, queue, status, sync_mutex, worker, cfg,
                   trigger, now, hist, probe>>

\* the retry with its exit status ignored: conflict detection always follows
pwcr_retry_ignores_exit(t) ==
    /\ pc[t] = "pwcr_retry"
    /\ \E g \in Git_pull(repo, TRUE) :
         /\ repo' = g.repo
         /\ Log(t, "git pull --allow-unrelated-histories")
         /\ IF ~g.out.launched THEN Raise(t, E_launch)
            ELSE Goto(t, "list_conflicted_files") /\ UNCHANGED result
    /\ Frame

pwcr_retry(t) ==
    /\ pc[t] = "pwcr_retry"
    /\ \E g \in Git_pull(repo, TRUE) :
         /\ repo' = g.repo
         /\ Log(t, "git pull --allow-unrelated-histories")
         /\ IF ~g.out.launched THEN Raise(t, E_launch)
            ELSE IF g.out.status_code = 0
            THEN Goto(t, AfterPull(t)) /\ UNCHANGED result
            ELSE Goto(t, "list_conflicted_files") /\ UNCHANGED result
    /\ Frame

Digit(n) == <<"0", "1", "2", "3", "4", "5", "6", "7", "8", "9">>[n + 1]

RECURSIVE Decimal(_)
Decimal(n) == IF n < 10 THEN <<Digit(n)>> ELSE Append(Decimal(n \div 10), Digit(n % 10))

\* Local::now().format(..): the digits of the clock
FormatNow(time) == Decimal(time)

\* stdout.lines().map(str::trim).filter(|line| !line.is_empty())
RECURSIVE NonEmptyTrimmed(_)
NonEmptyTrimmed(lines) ==
    IF lines = <<>> THEN <<>>
    ELSE (IF Trim(Head(lines)) = <<>> THEN <<>> ELSE <<Trim(Head(lines))>>)
         \o NonEmptyTrimmed(Tail(lines))

\* list_conflicted_files, the empty-list error of pull_with_conflict_resolution
\* and the timestamp resolve_conflicts_by_duplication starts with
list_conflicted_files(t) ==
    /\ pc[t] = "list_conflicted_files"
    /\ \E g \in Git_diff_unmerged(repo) :
         /\ repo' = g.repo
         /\ Log(t, "git diff --diff-filter=U")
         /\ LET conflicted_files == NonEmptyTrimmed(g.out.stdout)
            IN  IF ~g.out.launched THEN Raise(t, E_launch) /\ UNCHANGED loc
                ELSE IF g.out.status_code # 0
                THEN /\ Raise(t, <<"Failed to list conflicted files: ">>
                                 \o command_error_message(g.out))
                     /\ UNCHANGED loc
                ELSE IF conflicted_files = <<>>
                THEN /\ Raise(t, <<"Failed to pull from origin/">>
                                 \o normalized_branch(cfg[t].branch) \o <<": ">>
                                 \o command_error_message(loc[t].pull_output))
                     /\ UNCHANGED loc
                ELSE /\ loc' = [loc EXCEPT ![t].conflicted = conflicted_files,
                                           ![t].i = 1,
                                           ![t].timestamp = FormatNow(now),
                                           ![t].stages = repo.unmerged]
                     /\ Goto(t, "rcd_read2")
                     /\ UNCHANGED result
    /\ UNCHANGED <<settings, sender, queue, status, sync_mutex, worker, cfg,
                   trigger, now, hist, probe>>

----------------------------------------------------------------------------
(* resolve_conflicts_by_duplication *)

\* index of the last '/' of a path, 0 when there is none
LastIndexOf(s, c) ==
    IF ContainsChar(s, c)
    THEN CHOOSE i \in 1..Len(s) : s[i] = c /\ \A j \in (i + 1)..Len(s) : s[j] # c
    ELSE 0

\* Path::file_name: the last component, None when it is ".."
file_name(path) ==
    LET last == SubSeq(path, LastIndexOf(path, "/") + 1, Len(path))
    IN  IF last = <<>> \/ last = <<".", ".">> THEN None ELSE Some(last)

\* split_file_name: rsplit_once('.') with a non-empty stem, else no extension
split_file_name(name) ==
    LET dot == LastIndexOf(name, ".")
    IN  IF dot > 1
        THEN <<SubSeq(name, 1, dot - 1), SubSeq(name, dot + 1, Len(name))>>
        ELSE <<name, <<>>>>

S_conflict == <<"-", "c", "o", "n", "f", "l", "i", "c", "t", "-">>

\* PathBuf::set_file_name: the parent joined with the new name
set_file_name(path, name) ==
    SubSeq(path, 1, LastIndexOf(path, "/")) \o name

conflict_duplicate_relative_path(relative_path, timestamp) ==
    IF file_name(relative_path) = None
    THEN Err(<<"Invalid conflicted file path: ">> \o relative_path)
    ELSE LET parts == split_file_name(Unwrap(file_name(relative_path)))
             stem == parts[1]
             extension == parts[2]
             duplicate_name ==
                 IF extension = <<>>
                 THEN stem \o S_conflict \o timestamp
                 ELSE stem \o S_conflict \o timestamp \o <<".">> \o extension
         IN  [ok |-> TRUE, err |-> None, path |-> set_file_name(relative_path, duplicate_name)]

CurrentPath(t) == loc[t].conflicted[loc[t].i]

LocFrame == UNCHANGED <<settings, sender, queue, status, sync_mutex, worker, cfg,
                        trigger, now, hist, probe>>

\* read_conflict_blob(.., 2)?: a launch failure propagates, a non-zero exit
\* is None
rcd_read2(t) ==
    /\ pc[t] = "rcd_read2"
    /\ \E g \in Git_show(repo, 2, CurrentPath(t)) :
         /\ repo' = g.repo
         /\ Log(t, "git show :2")
         /\ IF ~g.out.launched THEN Raise(t, E_launch) /\ UNCHANGED loc
            ELSE IF g.out.status_code = 0
            THEN /\ loc' = [loc EXCEPT ![t].duplicate_content = g.out.stdout]
                 /\ Goto(t, "rcd_write")
                 /\ UNCHANGED result
            ELSE Goto(t, "rcd_read3") /\ UNCHANGED <<result, loc>>
    /\ LocFrame

\* .or_else(|| read_conflict_blob(.., 3).ok().flatten()).unwrap_or_default()
rcd_read3(t) ==
    /\ pc[t] = "rcd_read3"
    /\ \E g \in Git_show(repo, 3, CurrentPath(t)) :
         /\ repo' = g.repo
         /\ Log(t, "git show :3")
         /\ loc' = [loc EXCEPT ![t].duplicate_content =
                        IF g.out.launched /\ g.out.status_code = 0
                        THEN g.out.stdout ELSE <<>>]
         /\ Goto(t, "rcd_write")
         /\ UNCHANGED result
    /\ LocFrame

\* the step with no duplicate written
rcd_write_nothing(t) ==
    /\ pc[t] = "rcd_write"
    /\ Goto(t, "rcd_add_dup")
    /\ UNCHANGED <<repo, cmds, result>>
    /\ Frame

\* conflict_duplicate_relative_path, create_dir_all(parent), fs::write
rcd_write(t) ==
    /\ pc[t] = "rcd_write"
    /\ LET dup == conflict_duplicate_relative_path(CurrentPath(t), loc[t].timestamp)
       IN  IF ~dup.ok
           THEN Raise(t, Unwrap(dup.err)) /\ UNCHANGED <<repo, cmds>>
           ELSE \E io_ok \in IoOutcomes(repo) :
                  IF io_ok
                  THEN /\ repo' = [repo EXCEPT !.files =
                                      With(@, dup.path, Some(as_bytes(loc[t].duplicate_content)))]
                       /\ Log(t, "write duplicate")
                       /\ Goto(t, "rcd_add_dup")
                       /\ UNCHANGED result
                  ELSE Raise(t, <<"io error">>) /\ repo' = Spent(repo) /\ UNCHANGED cmds
    /\ Frame

rcd_add_dup(t) ==
    /\ pc[t] = "rcd_add_dup"
    /\ GitSuccessStep(t, Git_add_path(repo,
                             conflict_duplicate_relative_path(CurrentPath(t),
                                                              loc[t].timestamp).path),
                      "git add duplicate", "stage duplicate conflict file",
                      "rcd_checkout")
    /\ Frame

rcd_checkout(t) ==
    /\ pc[t] = "rcd_checkout"
    /\ GitSuccessStep(t, Git_checkout_theirs(repo, CurrentPath(t)),
                      "git checkout --theirs", "checkout remote conflict version",
                      "rcd_add")
    /\ Frame

\* the step going on to the resolution commit after whichever path
rcd_add_commits_early(t) ==
    /\ pc[t] = "rcd_add"
    /\ GitSuccessStep(t, Git_add_path(repo, CurrentPath(t)),
                      "git add conflicted", "stage resolved conflict file",
                      "rcd_commit")
    /\ Frame

\* the last command of one loop iteration: next path, or the resolution commit
rcd_add(t) ==
    /\ pc[t] = "rcd_add"
    /\ \E g \in Git_add_path(repo, CurrentPath(t)) :
         /\ repo' = g.repo
         /\ Log(t, "git add conflicted")
         /\ LET res == run_git_success(g.out, "stage resolved conflict file")
            IN  IF ~res.ok THEN Raise(t, Unwrap(res.err)) /\ UNCHANGED loc
                ELSE IF loc[t].i < Len(loc[t].conflicted)
                THEN /\ loc' = [loc EXCEPT ![t].i = @ + 1]
                     /\ Goto(t, "rcd_read2")
                     /\ UNCHANGED result
                ELSE Goto(t, "rcd_commit") /\ UNCHANGED <<result, loc>>
    /\ LocFrame

rcd_commit(t) ==
    /\ pc[t] = "rcd_commit"
    /\ \E g \in Git_commit(repo) :
         /\ repo' = g.repo
         /\ Log(t, "git commit resolution")
         /\ IF ~g.out.launched THEN Raise(t, E_launch)
            ELSE IF g.out.status_code = 0
            THEN Goto(t, AfterPull(t)) /\ UNCHANGED result
            ELSE IF contains(command_error_message(g.out), "nothing to commit")
            THEN Goto(t, AfterPull(t)) /\ UNCHANGED result
            ELSE Raise(t, <<"Failed to finalize conflict resolution: ">>
                          \o command_error_message(g.out))
    /\ Frame

----------------------------------------------------------------------------
(* push_branch *)

\* history: the configuration whose push has just brought local and remote
\* together, with no change since
Synced(t) == [hist EXCEPT !.quiet = ~loc[t].disturbed, !.last_cfg = cfg[t]]

\* a faulty variant of pb_push: every failed push is followed by the pull
\* and the retry
pb_push_retry_any(t) ==
    /\ pc[t] = "pb_push"
    /\ \E g \in Git_push(repo) :
         /\ repo' = g.repo
         /\ Log(t, "git push")
         /\ IF ~g.out.launched
            THEN /\ Raise(t, E_launch)
                 /\ loc' = [loc EXCEPT ![t].push_output = g.out]
            ELSE IF g.out.status_code = 0
            THEN /\ result' = [result EXCEPT ![t] = Ok]
                 /\ Goto(t, "rso_end")
                 /\ loc' = [loc EXCEPT ![t].push_output = g.out]
            ELSE /\ loc' = [loc EXCEPT ![t].pull_from = "push_branch",
                                       ![t].push_output = g.out]
                 /\ Goto(t, "pwcr_pull")
                 /\ UNCHANGED result
         /\ hist' = IF g.out.launched /\ g.out.status_code = 0 THEN Synced(t) ELSE hist
    /\ UNCHANGED <<settings, sender, queue, status, sync_mutex, worker, cfg,
                   trigger, now, probe>>

pb_push(t) ==
    /\ pc[t] = "pb_push"
    /\ \E g \in Git_push(repo) :
         /\ repo' = g.repo
         /\ Log(t, "git push")
         /\ LET lower_error == to_lowercase(command_error_message(g.out))
            IN  IF ~g.out.launched
                THEN /\ Raise(t, E_launch)
                     /\ loc' = [loc EXCEPT ![t].push_output = g.out]
                ELSE IF g.out.status_code = 0
                THEN /\ result' = [result EXCEPT ![t] = Ok]
                     /\ Goto(t, "rso_end")
                     /\ loc' = [loc EXCEPT ![t].push_output = g.out]
                ELSE IF \/ contains(lower_error, "non-fast-forward")
                        \/ contains(lower_error, "fetch first")
                THEN /\ loc' = [loc EXCEPT ![t].pull_from = "push_branch",
                                           ![t].push_output = g.out]
                     /\ Goto(t, "pwcr_pull")
                     /\ UNCHANGED result
                ELSE /\ Raise(t, <<"Failed to push to origin/">>
                                 \o normalized_branch(cfg[t].branch) \o <<": ">>
                                 \o command_error_message(g.out))
                     /\ loc' = [loc EXCEPT ![t].push_output = g.out]
         /\ hist' = IF g.out.launched /\ g.out.status_code = 0 THEN Synced(t) ELSE hist
    /\ UNCHANGED <<settings, sender, queue, status, sync_mutex, worker, cfg,
                   trigger, now, probe>>

\* a faulty variant of pb_retry: the retry reports its failure in the words
\* of the first push
pb_retry_origin_message(t) ==
    /\ pc[t] = "pb_retry"
    /\ \E g \in Git_push(repo) :
         /\ repo' = g.repo
         /\ Log(t, "git push")
         /\ IF ~g.out.launched THEN Raise(t, E_launch)
            ELSE IF g.out.status_code = 0
            THEN result' = [result EXCEPT ![t] = Ok] /\ Goto(t, "rso_end")
            ELSE Raise(t, <<"Failed to push to origin/">>
                          \o normalized_branch(cfg[t].branch) \o <<": ">>
                          \o command_error_message(g.out))
         /\ hist' = IF g.out.launched /\ g.out.status_code = 0 THEN Synced(t) ELSE hist
    /\ UNCHANGED <<settings, sender, queue, status, sync_mutex, worker, cfg,
                   trigger, loc, now, probe>>

\* the one retry: run_git_success(push, "push synced notes to remote")
pb_retry(t) ==
    /\ pc[t] = "pb_retry"
    /\ \E g \in Git_push(repo) :
         /\ repo' = g.repo
         /\ Log(t, "git push")
         /\ LET res == run_git_success(g.out, "push synced notes to remote")
            IN  IF res.ok
                THEN result' = [result EXCEPT ![t] = Ok] /\ Goto(t, "rso_end")
                ELSE Raise(t, Unwrap(res.err))
         /\ hist' = IF g.out.launched /\ g.out.status_code = 0 THEN Synced(t) ELSE hist
    /\ UNCHANGED <<settings, sender, queue, status, sync_mutex, worker, cfg,
                   trigger, loc, now, probe>>

----------------------------------------------------------------------------
(* The commands: git_sync_now *)

\* what a call leaves behind is dropped when it returns
ClearCall(t) ==
    /\ cfg' = [cfg EXCEPT ![t] = DefaultGitSharingSettings]
    /\ result' = [result EXCEPT ![t] = Ok]
    /\ cmds' = [cmds EXCEPT ![t] = <<>>]
    /\ loc' = [loc EXCEPT ![t] = NoLocals]

\* a faulty variant of build_ad_hoc_config: the folder is taken as it is typed
build_ad_hoc_config_untrimmed(folder, remote_url, branch) ==
    LET defaults == DefaultGitSharingSettings
        value == IF IsSome(branch) THEN Some(Trim(Unwrap(branch))) ELSE None
    IN  Config(TRUE, folder, Trim(remote_url),
               IF IsSome(value) /\ Unwrap(value) # <<>>
               THEN Unwrap(value) ELSE defaults.branch,
               defaults.sync_interval_seconds)

\* branch: Option<String>
build_ad_hoc_config(folder, remote_url, branch) ==
    LET defaults == DefaultGitSharingSettings
        value == IF IsSome(branch) THEN Some(Trim(Unwrap(branch))) ELSE None
    IN  Config(TRUE, Trim(folder), Trim(remote_url),
               IF IsSome(value) /\ Unwrap(value) # <<>>
               THEN Unwrap(value) ELSE defaults.branch,
               defaults.sync_interval_seconds)

git_sync_now(t, folder, remote_url, branch) ==
    /\ pc[t] = "idle"
    /\ cfg' = [cfg EXCEPT ![t] = build_ad_hoc_config(folder, remote_url, branch)]
    /\ trigger' = [trigger EXCEPT ![t] = "Manual"]
    /\ loc' = [loc EXCEPT ![t] = SyncLocals(build_ad_hoc_config(folder, remote_url, branch))]
    /\ Goto(t, "rso_validate")
    /\ UNCHANGED <<settings, sender, queue, status, sync_mutex, worker, result,
                   cmds, repo, now, hist, probe>>

\* rebuild_note_index: index.build() and the error it may leave in the status
rebuild_note_index(st, build_ok) ==
    IF build_ok THEN st
    ELSE SetLastError(st, <<"Git sync succeeded but index rebuild failed: ", "io error">>)

\* a faulty variant of gsn_result: the index is rebuilt whatever the result
gsn_result_always_rebuilds(t) ==
    /\ t \in Callers
    /\ pc[t] = "rso_return"
    /\ \E build_ok \in BOOLEAN :
         /\ status' = rebuild_note_index(status, build_ok)
         /\ loc' = [loc EXCEPT ![t].rebuilt = TRUE]
    /\ Goto(t, "returned")
    /\ UNCHANGED <<settings, sender, queue, sync_mutex, worker, cfg, trigger,
                   result, cmds, repo, now, hist, probe>>

\* run_sync_operation(..)?; rebuild_note_index(&app);
gsn_result(t) ==
    /\ t \in Callers
    /\ pc[t] = "rso_return"
    /\ IF result[t].ok
       THEN \E build_ok \in BOOLEAN :
              /\ status' = rebuild_note_index(status, build_ok)
              /\ loc' = [loc EXCEPT ![t].rebuilt = TRUE]
       ELSE UNCHANGED <<status, loc>>
    /\ Goto(t, "returned")
    /\ UNCHANGED <<settings, sender, queue, sync_mutex, worker, cfg, trigger,
                   result, cmds, repo, now, hist, probe>>

\* the command returns its Result to the frontend
command_return(t) ==
    /\ t \in Callers
    /\ pc[t] = "returned"
    /\ ClearCall(t)
    /\ Goto(t, "idle")
    /\ UNCHANGED <<settings, sender, queue, status, sync_mutex, worker, trigger,
                   repo, now, hist, probe>>

----------------------------------------------------------------------------
(* The commands: git_prepare_repository, and status_for_config *)

\* resolve_folder_path(folder).ok(): the folder it creates, None when the
\* name is invalid or create_dir_all fails
ResolvedFolder(config, r, io_ok) ==
    IF IsSome(normalized_optional(config.shared_folder))
       /\ validate_name(Unwrap(normalized_optional(config.shared_folder))).ok
       /\ io_ok
    THEN Some([r EXCEPT !.folder = TRUE])
    ELSE None

\* status_for_config: the snapshot of RuntimeStatus joined with the
\* configuration and with whether the folder holds a .git
status_for_config(config, runtime, r, io_ok) ==
    [ enabled |-> config.enabled,
      linked_folder |-> normalized_optional(config.shared_folder),
      remote_url |-> normalized_optional(config.remote_url),
      branch |-> normalized_branch(config.branch),
      repo_initialized |-> /\ IsSome(ResolvedFolder(config, r, io_ok))
                           /\ Unwrap(ResolvedFolder(config, r, io_ok)).git,
      pending_changes |-> runtime.pending_changes,
      syncing |-> runtime.syncing,
      last_sync_at |-> runtime.last_sync_at,
      last_error |-> runtime.last_error ]

\* Ok(status) of a command
OkStatus(value) == [ok |-> TRUE, err |-> None, value |-> value]

\* the repository after status_for_config: resolve_folder_path has created
\* the folder, or has failed
AfterStatusFor(config, r, io_ok) ==
    IF IsSome(ResolvedFolder(config, r, io_ok)) THEN Unwrap(ResolvedFolder(config, r, io_ok))
    ELSE IF io_ok THEN r ELSE Spent(r)

\* let config = build_ad_hoc_config(..); the sync mutex is not taken
git_prepare_repository(t, folder, remote_url, branch) ==
    /\ pc[t] = "idle"
    /\ cfg' = [cfg EXCEPT ![t] = build_ad_hoc_config(folder, remote_url, branch)]
    /\ loc' = [loc EXCEPT ![t] = [NoLocals EXCEPT !.op = "prepare"]]
    /\ Goto(t, "gpr_validate")
    /\ UNCHANGED <<settings, sender, queue, status, sync_mutex, worker, trigger,
                   result, cmds, repo, now, hist, probe>>

\* validate_git_config_fields(&config)?;
gpr_validate(t) ==
    /\ pc[t] = "gpr_validate"
    /\ LET v == validate_git_config_fields(cfg[t])
       IN  IF v.ok
           THEN Goto(t, "linked_folder_path") /\ UNCHANGED result
           ELSE /\ result' = [result EXCEPT ![t] = v]
                /\ Goto(t, "gpr_return")
    /\ UNCHANGED <<settings, sender, queue, status, sync_mutex, worker, cfg,
                   trigger, cmds, loc, repo, now, hist, probe>>

\* Ok(status_for_config(Some(&config))), or the Err of an earlier step
gpr_result(t) ==
    /\ pc[t] = "gpr_return"
    /\ IF result[t].ok
       THEN \E io_ok \in IoOutcomes(repo) :
              /\ repo' = AfterStatusFor(cfg[t], repo, io_ok)
              /\ result' = [result EXCEPT ![t] =
                               OkStatus(status_for_config(cfg[t], status, repo, io_ok))]
       ELSE UNCHANGED <<repo, result>>
    /\ Goto(t, "returned")
    /\ UNCHANGED <<settings, sender, queue, status, sync_mutex, worker, cfg,
                   trigger, cmds, loc, now, hist, probe>>

Prepare(t, folders, remotes, branches) ==
    \/ \E f \in folders, r \in remotes, b \in branches : git_prepare_repository(t, f, r, b)
    \/ gpr_validate(t)
    \/ gpr_result(t)

----------------------------------------------------------------------------
(* The commands: git_get_sync_status *)

\* let settings = settings::get_settings()?;
git_get_sync_status(t) ==
    /\ pc[t] = "idle"
    /\ IF settings.ok
       THEN /\ cfg' = [cfg EXCEPT ![t] = settings.git_sharing]
            /\ Goto(t, "ggs_status")
            /\ UNCHANGED result
       ELSE /\ result' = [result EXCEPT ![t] = Err(<<"io error">>)]
            /\ Goto(t, "returned")
            /\ UNCHANGED cfg
    /\ loc' = [loc EXCEPT ![t] = [NoLocals EXCEPT !.op = "status"]]
    /\ UNCHANGED <<settings, sender, queue, status, sync_mutex, worker, trigger,
                   cmds, repo, now, hist, probe>>

\* a faulty variant of ggs_status: the status is read under the sync mutex
ggs_status_under_sync_mutex(t) ==
    /\ pc[t] = "ggs_status"
    /\ sync_mutex = None
    /\ \E io_ok \in IoOutcomes(repo) :
         /\ repo' = AfterStatusFor(cfg[t], repo, io_ok)
         /\ result' = [result EXCEPT ![t] =
                          OkStatus(status_for_config(cfg[t], status, repo, io_ok))]
    /\ Goto(t, "returned")
    /\ UNCHANGED <<settings, sender, queue, status, sync_mutex, worker, cfg,
                   trigger, cmds, loc, now, hist, probe>>

\* Ok(status_for_config(Some(&settings.git_sharing))): snapshot_runtime_status
\* takes the status lock, clones the struct and releases the lock
ggs_status(t) ==
    /\ pc[t] = "ggs_status"
    /\ \E io_ok \in IoOutcomes(repo) :
         /\ repo' = AfterStatusFor(cfg[t], repo, io_ok)
         /\ result' = [result EXCEPT ![t] =
                          OkStatus(status_for_config(cfg[t], status, repo, io_ok))]
    /\ Goto(t, "returned")
    /\ UNCHANGED <<settings, sender, queue, status, sync_mutex, worker, cfg,
                   trigger, cmds, loc, now, hist, probe>>

GetStatus(t) ==
    \/ git_get_sync_status(t)
    \/ ggs_status(t)
    \/ command_return(t)

----------------------------------------------------------------------------
(* The worker: start_background_worker, notify_*, background_worker_loop *)

NoteChanged(folder) == [type |-> "NoteChanged", folder |-> folder]

ForceSync == [type |-> "ForceSync", folder |-> <<>>]

MaxQueue == 2

\* Sender::send on the unbounded channel; the queue is cut off at MaxQueue
Send(q, msg) == IF sender /\ pc["worker"] # "dead" THEN Append(q, msg) ELSE q

CanSend == Len(queue) < MaxQueue

\* the first call sets WORKER_SENDER, spawns the thread and enqueues the
\* startup ForceSync; a later call finds the sender set and returns
start_background_worker ==
    /\ ~sender
    /\ sender' = TRUE
    /\ \E spawn_ok \in BOOLEAN :
         IF spawn_ok
         THEN /\ pc' = [pc EXCEPT !["worker"] = "bwl_init"]
              /\ queue' = Append(queue, ForceSync)
              /\ UNCHANGED status
         ELSE /\ pc' = [pc EXCEPT !["worker"] = "dead"]
              /\ status' = SetLastError(status, <<"Failed to start git sync worker: ", "os error">>)
              /\ UNCHANGED queue
    /\ UNCHANGED <<settings, sync_mutex, worker, cfg, trigger, result, cmds,
                   loc, repo, now, hist, probe>>

\* start_background_worker step by step, for callers that run concurrently.
\* if WORKER_SENDER.get().is_some() { return; }
sbw_get(s) ==
    /\ pc[s] = "sbw_get"
    /\ Goto(s, IF sender THEN "sbw_returned" ELSE "sbw_set")
    /\ UNCHANGED <<settings, sender, queue, status, sync_mutex, worker, cfg,
                   trigger, result, cmds, loc, repo, now, hist, probe>>

\* a faulty variant of sbw_set: the sender is stored whether or not another
\* call has stored one
sbw_set_overwrites(s) ==
    /\ pc[s] = "sbw_set"
    /\ sender' = TRUE
    /\ Goto(s, "sbw_spawn")
    /\ UNCHANGED <<settings, queue, status, sync_mutex, worker, cfg,
                   trigger, result, cmds, loc, repo, now, hist, probe>>

\* let (sender, receiver) = mpsc::channel(); if WORKER_SENDER.set(sender)
\* .is_err() { return; }: OnceLock::set stores the first sender only, and
\* the channel of a losing call is dropped with it
sbw_set(s) ==
    /\ pc[s] = "sbw_set"
    /\ IF sender
       THEN Goto(s, "sbw_lost") /\ UNCHANGED sender
       ELSE sender' = TRUE /\ Goto(s, "sbw_spawn")
    /\ UNCHANGED <<settings, queue, status, sync_mutex, worker, cfg,
                   trigger, result, cmds, loc, repo, now, hist, probe>>

\* thread::Builder::new().spawn(move || background_worker_loop(app, receiver)):
\* on an error the receiver is dropped, with the messages sent so far
sbw_spawn(s) ==
    /\ pc[s] = "sbw_spawn"
    /\ \E spawn_ok \in BOOLEAN :
         IF spawn_ok
         THEN /\ pc' = [pc EXCEPT ![s] = "sbw_notify", !["worker"] = "bwl_init"]
              /\ hist' = [hist EXCEPT !.spawned = @ + 1]
              /\ UNCHANGED <<status, queue>>
         ELSE /\ pc' = [pc EXCEPT ![s] = "sbw_returned", !["worker"] = "dead"]
              /\ status' = SetLastError(status, <<"Failed to start git sync worker: ", "os error">>)
              /\ queue' = <<>>
              /\ UNCHANGED hist
    /\ UNCHANGED <<settings, sender, sync_mutex, worker, cfg, trigger, result,
                   cmds, loc, repo, now, probe>>

\* notify_force_sync(); the startup ForceSync
sbw_notify(s) ==
    /\ pc[s] = "sbw_notify"
    /\ CanSend
    /\ queue' = Send(queue, ForceSync)
    /\ hist' = [hist EXCEPT !.startups = @ + 1]
    /\ Goto(s, "sbw_returned")
    /\ UNCHANGED <<settings, sender, status, sync_mutex, worker, cfg, trigger,
                   result, cmds, loc, repo, now, probe>>

\* the call is made, and a call that has returned may be made again
sbw_call(s) ==
    /\ pc[s] \in {"idle", "sbw_returned", "sbw_lost"}
    /\ Goto(s, "sbw_get")
    /\ UNCHANGED <<settings, sender, queue, status, sync_mutex, worker, cfg,
                   trigger, result, cmds, loc, repo, now, hist, probe>>

StartWorker(s) ==
    \/ sbw_call(s) \/ sbw_get(s) \/ sbw_set(s) \/ sbw_spawn(s) \/ sbw_notify(s)

Max(a, b) == IF a >= b THEN a ELSE b

periodic_sync_interval ==
    IF settings.ok
    THEN Max(settings.git_sharing.sync_interval_seconds, MIN_PERIODIC_SYNC_SECONDS)
    ELSE DEFAULT_PERIODIC_SYNC_SECONDS

\* a faulty variant of is_folder_linked_for_sync: the enabled flag is not read
is_folder_linked_whether_enabled(folder) ==
    /\ settings.ok
    /\ Trim(settings.git_sharing.remote_url) # <<>>
    /\ Trim(settings.git_sharing.shared_folder) = Trim(folder)

is_folder_linked_for_sync(folder) ==
    /\ settings.ok
    /\ settings.git_sharing.enabled
    /\ Trim(settings.git_sharing.remote_url) # <<>>
    /\ Trim(settings.git_sharing.shared_folder) = Trim(folder)

\* the seconds an Instant can hold, scaled down from i64::MAX
MaxInstant == 1000

\* Instant::checked_add(Duration::from_secs(secs))
checked_add(instant, secs) ==
    IF secs > MaxInstant - instant THEN None ELSE Some(instant + secs)

\* a faulty variant of SetNextPeriodicSync: the stored interval is used as it
\* is, without the floor of MIN_PERIODIC_SYNC_SECONDS
SetNextPeriodicSyncUnclamped(w, label) ==
    LET interval == IF settings.ok THEN settings.git_sharing.sync_interval_seconds
                    ELSE DEFAULT_PERIODIC_SYNC_SECONDS
        deadline == checked_add(now, interval)
    IN  IF IsSome(deadline)
        THEN /\ worker' = [w EXCEPT !.next_periodic_sync = Unwrap(deadline)]
             /\ Goto("worker", label)
        ELSE /\ worker' = w
             /\ Goto("worker", "dead")

\* next_periodic_sync = Instant::now() + periodic_sync_interval(): the sum
\* panics on overflow, which ends the worker thread and drops the receiver
SetNextPeriodicSync(w, label) ==
    LET deadline == checked_add(now, periodic_sync_interval)
    IN  IF IsSome(deadline)
        THEN /\ worker' = [w EXCEPT !.next_periodic_sync = Unwrap(deadline)]
             /\ Goto("worker", label)
        ELSE /\ worker' = w
             /\ Goto("worker", "dead")

\* let mut pending_deadline = None; let mut next_periodic_sync = now + interval
bwl_init ==
    /\ pc["worker"] = "bwl_init"
    /\ SetNextPeriodicSync([worker EXCEPT !.pending_deadline = None], "bwl_recv")
    /\ UNCHANGED <<settings, sender, queue, status, sync_mutex, cfg, trigger,
                   result, cmds, loc, repo, now, hist, probe>>

\* run_sync_from_saved_settings(&app, trigger) is entered
CallSync(trig) ==
    /\ trigger' = [trigger EXCEPT !["worker"] = trig]
    /\ Goto("worker", "rsfs_load")

MaxEvents == 3

\* history of the debounce: the qualifying NoteChanged events processed since
\* the last debounced sync (counted up to MaxEvents), the time the last one
\* was processed, and the number the last debounced sync has served
EventProcessed ==
    [hist EXCEPT !.events = IF @ < MaxEvents THEN @ + 1 ELSE @,
                 !.last_event_at = Some(now)]

DebounceFired ==
    [hist EXCEPT !.events = 0, !.coalesced = hist.events]

\* a faulty variant of bwl_recv: an event leaves a pending deadline as it is
bwl_recv_keep_deadline ==
    /\ pc["worker"] = "bwl_recv"
    /\ IF queue = <<>>
       THEN /\ Goto("worker", "bwl_debounce")
            /\ UNCHANGED <<queue, worker, status, trigger, hist>>
       ELSE /\ queue' = Tail(queue)
            /\ IF Head(queue).type = "NoteChanged"
               THEN /\ IF is_folder_linked_for_sync(Head(queue).folder)
                       THEN /\ worker' = [worker EXCEPT !.pending_deadline =
                                             IF IsSome(@) THEN @
                                             ELSE Some(now + DEFAULT_DEBOUNCE_SECONDS)]
                            /\ status' = [status EXCEPT !.pending_changes = TRUE]
                            /\ hist' = EventProcessed
                       ELSE UNCHANGED <<worker, status, hist>>
                    /\ Goto("worker", "bwl_debounce")
                    /\ UNCHANGED trigger
               ELSE /\ CallSync("Startup")
                    /\ UNCHANGED <<worker, status, hist>>
    /\ UNCHANGED <<settings, sender, sync_mutex, cfg, result, cmds, loc, repo, now, probe>>

\* receiver.recv_timeout(1 s) and the match on its result
bwl_recv ==
    /\ pc["worker"] = "bwl_recv"
    /\ IF queue = <<>>
       THEN \* Err(RecvTimeoutError::Timeout) => {}
            /\ Goto("worker", "bwl_debounce")
            /\ UNCHANGED <<queue, worker, status, trigger, hist>>
       ELSE /\ queue' = Tail(queue)
            /\ IF Head(queue).type = "NoteChanged"
               THEN /\ IF is_folder_linked_for_sync(Head(queue).folder)
                       THEN /\ worker' = [worker EXCEPT !.pending_deadline =
                                             Some(now + DEFAULT_DEBOUNCE_SECONDS)]
                            /\ status' = [status EXCEPT !.pending_changes = TRUE]
                            /\ hist' = EventProcessed
                       ELSE UNCHANGED <<worker, status, hist>>
                    /\ Goto("worker", "bwl_debounce")
                    /\ UNCHANGED trigger
               ELSE /\ CallSync("Startup")
                    /\ UNCHANGED <<worker, status, hist>>
    /\ UNCHANGED <<settings, sender, sync_mutex, cfg, result, cmds, loc, repo, now, probe>>

\* history of the loop: the syncs the worker has invoked in the current
\* iteration, and the time at which the last of them had returned
SyncReturned(trig) ==
    [hist EXCEPT !.iteration = @ \cup {trig}, !.last_return = Some(now)]

NextIteration == [hist EXCEPT !.iteration = {}]

\* a faulty variant of bwl_debounce: while a deadline is pending and not yet
\* reached the iteration ends without the periodic check
bwl_debounce_skips_periodic ==
    /\ pc["worker"] = "bwl_debounce"
    /\ IF IsSome(worker.pending_deadline) /\ now >= Unwrap(worker.pending_deadline)
       THEN CallSync("DebouncedSave") /\ hist' = DebounceFired
       ELSE /\ Goto("worker", IF IsSome(worker.pending_deadline)
                              THEN "bwl_recv" ELSE "bwl_periodic")
            /\ UNCHANGED <<trigger, hist>>
    /\ UNCHANGED <<settings, sender, queue, status, sync_mutex, worker, cfg,
                   result, cmds, loc, repo, now, probe>>

\* if let Some(deadline) = pending_deadline { if Instant::now() >= deadline {
bwl_debounce ==
    /\ pc["worker"] = "bwl_debounce"
    /\ IF IsSome(worker.pending_deadline) /\ now >= Unwrap(worker.pending_deadline)
       THEN CallSync("DebouncedSave") /\ hist' = DebounceFired
       ELSE Goto("worker", "bwl_periodic") /\ UNCHANGED <<trigger, hist>>
    /\ UNCHANGED <<settings, sender, queue, status, sync_mutex, worker, cfg,
                   result, cmds, loc, repo, now, probe>>

\* if Instant::now() >= next_periodic_sync {
bwl_periodic ==
    /\ pc["worker"] = "bwl_periodic"
    /\ IF now >= worker.next_periodic_sync
       THEN CallSync("Periodic") /\ UNCHANGED hist
       ELSE Goto("worker", "bwl_recv") /\ hist' = NextIteration /\ UNCHANGED trigger
    /\ UNCHANGED <<settings, sender, queue, status, sync_mutex, worker, cfg,
                   result, cmds, loc, repo, now, probe>>

\* the statement after each run_sync_from_saved_settings call of the loop
AfterSync(trig) ==
    CASE trig = "Startup" -> "bwl_after_force"
      [] trig = "DebouncedSave" -> "bwl_after_debounce"
      [] OTHER -> "bwl_after_periodic"

\* a faulty variant of rsfs_load: the saved configuration is synced whether
\* or not it is enabled
rsfs_load_ignores_enabled ==
    /\ pc["worker"] = "rsfs_load"
    /\ IF ~settings.ok
       THEN /\ status' = SetLastError(status, <<"Failed to load settings: ", "io error">>)
            /\ Goto("worker", AfterSync(trigger["worker"]))
            /\ UNCHANGED <<cfg, loc>>
       ELSE /\ cfg' = [cfg EXCEPT !["worker"] = settings.git_sharing]
            /\ loc' = [loc EXCEPT !["worker"] = SyncLocals(settings.git_sharing)]
            /\ Goto("worker", "rso_validate")
            /\ UNCHANGED status
    /\ UNCHANGED <<settings, sender, queue, sync_mutex, worker, trigger, result,
                   cmds, repo, now, hist, probe>>

\* run_sync_from_saved_settings up to the call of run_sync_operation
rsfs_load ==
    /\ pc["worker"] = "rsfs_load"
    /\ IF ~settings.ok
       THEN /\ status' = SetLastError(status, <<"Failed to load settings: ", "io error">>)
            /\ Goto("worker", AfterSync(trigger["worker"]))
            /\ UNCHANGED <<cfg, loc>>
       ELSE IF ~settings.git_sharing.enabled
       THEN /\ Goto("worker", AfterSync(trigger["worker"]))
            /\ UNCHANGED <<status, cfg, loc>>
       ELSE /\ cfg' = [cfg EXCEPT !["worker"] = settings.git_sharing]
            /\ loc' = [loc EXCEPT !["worker"] = SyncLocals(settings.git_sharing)]
            /\ Goto("worker", "rso_validate")
            /\ UNCHANGED status
    /\ UNCHANGED <<settings, sender, queue, sync_mutex, worker, trigger, result,
                   cmds, repo, now, hist, probe>>

\* if let Err(error) = run_sync_operation(..) { last_error = Some(error);
\* return; }  rebuild_note_index(app);
rsfs_result ==
    /\ pc["worker"] = "rso_return"
    /\ IF result["worker"].ok
       THEN \E build_ok \in BOOLEAN :
              /\ status' = rebuild_note_index(status, build_ok)
              /\ loc' = [loc EXCEPT !["worker"].rebuilt = TRUE]
       ELSE /\ status' = [status EXCEPT !.last_error = result["worker"].err]
            /\ UNCHANGED loc
    /\ Goto("worker", AfterSync(trigger["worker"]))
    /\ UNCHANGED <<settings, sender, queue, sync_mutex, worker, cfg, trigger,
                   result, cmds, repo, now, hist, probe>>

\* a faulty variant of bwl_after_force: the periodic deadline is left as it was
bwl_after_force_no_reset ==
    /\ pc["worker"] = "bwl_after_force"
    /\ Goto("worker", "bwl_debounce")
    /\ ClearCall("worker")
    /\ hist' = SyncReturned("Startup")
    /\ UNCHANGED <<settings, sender, queue, status, sync_mutex, worker, trigger,
                   repo, now, probe>>

\* a faulty variant of bwl_after_force: the sync of a ForceSync is taken to
\* have served the pending change
bwl_after_force_clears_pending ==
    /\ pc["worker"] = "bwl_after_force"
    /\ SetNextPeriodicSync([worker EXCEPT !.pending_deadline = None], "bwl_debounce")
    /\ status' = [status EXCEPT !.pending_changes = FALSE]
    /\ ClearCall("worker")
    /\ hist' = SyncReturned("Startup")
    /\ UNCHANGED <<settings, sender, queue, sync_mutex, trigger, repo, now, probe>>

\* next_periodic_sync = Instant::now() + periodic_sync_interval();
bwl_after_force ==
    /\ pc["worker"] = "bwl_after_force"
    /\ SetNextPeriodicSync(worker, "bwl_debounce")
    /\ ClearCall("worker")
    /\ hist' = SyncReturned("Startup")
    /\ UNCHANGED <<settings, sender, queue, status, sync_mutex, trigger, repo,
                   now, probe>>

\* a faulty variant of bwl_after_debounce: the deadline and the flag are kept
\* unless the sync has run and succeeded
bwl_after_debounce_keeps_on_failure ==
    /\ pc["worker"] = "bwl_after_debounce"
    /\ IF loc["worker"].op = "sync" /\ result["worker"].ok
       THEN /\ SetNextPeriodicSync([worker EXCEPT !.pending_deadline = None],
                                   "bwl_periodic")
            /\ status' = [status EXCEPT !.pending_changes = FALSE]
       ELSE /\ SetNextPeriodicSync(worker, "bwl_periodic")
            /\ UNCHANGED status
    /\ ClearCall("worker")
    /\ hist' = SyncReturned("DebouncedSave")
    /\ UNCHANGED <<settings, sender, queue, sync_mutex, trigger, repo, now, probe>>

\* a faulty variant of bwl_after_debounce: the events that arrived during the
\* debounced sync are taken as served by it
bwl_after_debounce_drops_events ==
    /\ pc["worker"] = "bwl_after_debounce"
    /\ SetNextPeriodicSync([worker EXCEPT !.pending_deadline = None], "bwl_periodic")
    /\ status' = [status EXCEPT !.pending_changes = FALSE]
    /\ queue' = <<>>
    /\ ClearCall("worker")
    /\ hist' = SyncReturned("DebouncedSave")
    /\ UNCHANGED <<settings, sender, sync_mutex, trigger, repo, now, probe>>

\* pending_deadline = None; pending_changes = false; next_periodic_sync = ..
bwl_after_debounce ==
    /\ pc["worker"] = "bwl_after_debounce"
    /\ SetNextPeriodicSync([worker EXCEPT !.pending_deadline = None], "bwl_periodic")
    /\ status' = [status EXCEPT !.pending_changes = FALSE]
    /\ ClearCall("worker")
    /\ hist' = SyncReturned("DebouncedSave")
    /\ UNCHANGED <<settings, sender, queue, sync_mutex, trigger, repo, now, probe>>

bwl_after_periodic ==
    /\ pc["worker"] = "bwl_after_periodic"
    /\ SetNextPeriodicSync(worker, "bwl_recv")
    /\ ClearCall("worker")
    /\ hist' = [NextIteration EXCEPT !.last_return = Some(now)]
    /\ UNCHANGED <<settings, sender, queue, status, sync_mutex, trigger, repo,
                   now, probe>>

----------------------------------------------------------------------------
(* The environment: the clock, the note commands, the settings, the remote *)

MaxTime == 60

\* time passes, by one of the given steps
Tick(steps) ==
    /\ \E d \in steps : now + d <= MaxTime /\ now' = now + d
    /\ UNCHANGED <<settings, sender, queue, status, sync_mutex, worker, pc, cfg,
                   trigger, result, cmds, loc, repo, hist, probe>>

\* time passes, up to one of the given instants
TickTo(instants) ==
    /\ \E n \in instants : n > now /\ n <= MaxTime /\ now' = n
    /\ UNCHANGED <<settings, sender, queue, status, sync_mutex, worker, pc, cfg,
                   trigger, result, cmds, loc, repo, hist, probe>>

MaxTimePeriodic == 120

\* time passes while the worker waits in recv_timeout or is inside a call;
\* the two deadline comparisons that end an iteration take no time
Elapse(steps) ==
    /\ pc["worker"] \notin {"bwl_debounce", "bwl_periodic"}
    /\ \E d \in steps : now + d <= MaxTimePeriodic /\ now' = now + d
    /\ UNCHANGED <<settings, sender, queue, status, sync_mutex, worker, pc, cfg,
                   trigger, result, cmds, loc, repo, hist, probe>>

\* history: the repository or its remote changed under the last sync
Disturbed ==
    /\ hist' = [hist EXCEPT !.quiet = FALSE]
    /\ loc' = [t \in Threads |->
                 IF loc[t].op = "sync"
                 THEN [loc[t] EXCEPT !.undisturbed = FALSE, !.disturbed = TRUE]
                 ELSE loc[t]]

\* notes.rs save_note / update_note / delete_note / move_note: a note file of
\* the folder changes and notify_note_changed(folder) is called
note_changed(folder) ==
    /\ CanSend
    /\ queue' = Send(queue, NoteChanged(folder))
    /\ IF folder = S_Inbox
       THEN repo' = [repo EXCEPT !.dirty = TRUE] /\ Disturbed
       ELSE UNCHANGED <<repo, hist, loc>>
    /\ UNCHANGED <<settings, sender, status, sync_mutex, worker, pc, cfg,
                   trigger, result, cmds, now, probe>>

\* a faulty variant of save_settings: the worker is notified whether or not
\* the settings were written
save_settings_notifies_anyway(t, config) ==
    /\ pc[t] = "idle"
    /\ \E io_ok \in BOOLEAN :
         /\ settings' = IF io_ok THEN [ok |-> TRUE, git_sharing |-> config] ELSE settings
         /\ result' = [result EXCEPT ![t] = IF io_ok THEN Ok ELSE Err(<<"io error">>)]
    /\ Goto(t, "ss_notify")
    /\ loc' = [loc EXCEPT ![t] = [NoLocals EXCEPT !.op = "save_settings"]]
    /\ UNCHANGED <<sender, queue, status, sync_mutex, worker, cfg, trigger,
                   cmds, repo, now, hist, probe>>

\* settings.rs save_settings: save_settings_to_file(&settings)?; the file is
\* replaced by a rename, or left as it was
save_settings(t, config) ==
    /\ pc[t] = "idle"
    /\ \E io_ok \in BOOLEAN :
         IF io_ok
         THEN /\ settings' = [ok |-> TRUE, git_sharing |-> config]
              /\ Goto(t, "ss_notify")
              /\ UNCHANGED result
         ELSE /\ result' = [result EXCEPT ![t] = Err(<<"io error">>)]
              /\ Goto(t, "returned")
              /\ UNCHANGED settings
    /\ loc' = [loc EXCEPT ![t] = [NoLocals EXCEPT !.op = "save_settings"]]
    /\ UNCHANGED <<sender, queue, status, sync_mutex, worker, cfg, trigger,
                   cmds, repo, now, hist, probe>>

\* a faulty variant of ss_notify: notify_force_sync waits for the sync mutex
ss_notify_waits_for_sync(t) ==
    /\ pc[t] = "ss_notify"
    /\ sync_mutex = None
    /\ CanSend
    /\ queue' = Send(queue, ForceSync)
    /\ Goto(t, "returned")
    /\ UNCHANGED <<settings, sender, status, sync_mutex, worker, cfg, trigger,
                   result, cmds, loc, repo, now, hist, probe>>

\* git_share::notify_force_sync(); Ok(true)
ss_notify(t) ==
    /\ pc[t] = "ss_notify"
    /\ CanSend
    /\ queue' = Send(queue, ForceSync)
    /\ Goto(t, "returned")
    /\ UNCHANGED <<settings, sender, status, sync_mutex, worker, cfg, trigger,
                   result, cmds, loc, repo, now, hist, probe>>

SaveSettings(t, configs) ==
    \/ \E c \in configs : save_settings(t, c)
    \/ ss_notify(t)
    \/ command_return(t)

\* note contents: the lines of the markdown text
L_text == <<"h", "i">>

L_blank == <<" ">>

L_br == <<"<", "B", "R", ">">>

Contents == {<<L_text>>, <<L_blank, L_text>>, <<>>, <<L_blank>>, <<L_br, L_blank>>}

to_ascii_lowercase(line) ==
    [i \in 1..Len(line) |->
        CASE line[i] = "B" -> "b" [] line[i] = "R" -> "r" [] OTHER -> line[i]]

\* eq_ignore_ascii_case against the three placeholders
is_break_placeholder_line(line) ==
    to_ascii_lowercase(line) \in { <<"<", "b", "r", ">">>, <<"<", "b", "r", "/", ">">>,
                                    <<"<", "b", "r", " ", "/", ">">> }

is_effectively_empty_markdown(content) ==
    \A i \in 1..Len(content) :
        Trim(content[i]) = <<>> \/ is_break_placeholder_line(Trim(content[i]))

\* a note command ends: the note files of the folders in touched have been
\* created, rewritten, removed or renamed, and notify_note_changed has
\* been called for each folder of notified, in order
NoteCommand(touched, notified) ==
    /\ Len(queue) + Len(notified) <= MaxQueue
    /\ queue' = IF Len(notified) = 0 THEN queue
                ELSE IF Len(notified) = 1 THEN Send(queue, NoteChanged(notified[1]))
                ELSE Send(Send(queue, NoteChanged(notified[1])), NoteChanged(notified[2]))
    /\ repo' = IF S_Inbox \in touched THEN [repo EXCEPT !.dirty = TRUE] ELSE repo
    /\ hist' = [hist EXCEPT !.quiet = @ /\ S_Inbox \notin touched,
                            !.edited = [n |-> 1 - @.n, folders |-> touched]]
    /\ loc' = IF S_Inbox \notin touched THEN loc
              ELSE [t \in Threads |->
                      IF loc[t].op = "sync"
                      THEN [loc[t] EXCEPT !.undisturbed = FALSE, !.disturbed = TRUE]
                      ELSE loc[t]]
    /\ UNCHANGED <<settings, sender, status, sync_mutex, worker, pc, cfg,
                   trigger, result, cmds, now, probe>>

\* notes.rs save_note: save_note_inner(folder, content)?, then, when a file
\* was written, index.add and notify_note_changed(&result.folder)
save_note(folder, content, io_ok) ==
    IF (folder # <<>> /\ ~validate_name(folder).ok)
       \/ is_effectively_empty_markdown(content)
       \/ ~io_ok
    THEN NoteCommand({}, <<>>)
    ELSE NoteCommand({folder}, <<folder>>)

\* notes.rs update_note: the note of the folder is rewritten and notified,
\* or, when the content is effectively empty, removed
update_note(folder, exists, content, io_ok) ==
    IF ~exists \/ ~io_ok
    THEN NoteCommand({}, <<>>)
    ELSE IF is_effectively_empty_markdown(content)
    THEN NoteCommand({folder}, <<>>)
    ELSE NoteCommand({folder}, <<folder>>)

\* notes.rs delete_note
delete_note(folder, exists, io_ok) ==
    IF ~exists \/ ~io_ok
    THEN NoteCommand({}, <<>>)
    ELSE NoteCommand({folder}, <<folder>>)

\* notes.rs move_note: fs::rename into the target folder, then
\* notify_note_changed(&source_folder); notify_note_changed(&target_folder)
move_note(source_folder, target_folder, exists, io_ok) ==
    IF ~exists \/ ~io_ok
    THEN NoteCommand({}, <<>>)
    ELSE NoteCommand({source_folder, target_folder}, <<source_folder, target_folder>>)

NoteFolders == {S_Inbox, S_Work}

NoteCommands ==
    \/ \E f \in NoteFolders \cup {<<".", ".">>}, c \in Contents, io_ok \in BOOLEAN :
          save_note(f, c, io_ok)
    \/ \E f \in NoteFolders, e \in BOOLEAN, c \in Contents, io_ok \in BOOLEAN :
          update_note(f, e, c, io_ok)
    \/ \E f \in NoteFolders, e \in BOOLEAN, io_ok \in BOOLEAN : delete_note(f, e, io_ok)
    \/ \E f \in NoteFolders, g \in NoteFolders, e \in BOOLEAN, io_ok \in BOOLEAN :
          move_note(f, g, e, io_ok)

\* the settings file becomes unreadable: get_settings() returns Err
settings_unreadable ==
    /\ settings.ok
    /\ settings' = [settings EXCEPT !.ok = FALSE]
    /\ UNCHANGED <<sender, queue, status, sync_mutex, worker, pc, cfg, trigger,
                   result, cmds, loc, repo, now, hist, probe>>

\* another machine pushes to the remote branch
remote_pushed ==
    /\ ~repo.behind
    /\ repo' = [repo EXCEPT !.remote_branch = TRUE, !.behind = TRUE]
    /\ Disturbed
    /\ UNCHANGED <<settings, sender, queue, status, sync_mutex, worker, pc, cfg,
                   trigger, result, cmds, now, probe>>

\* another git client commits the merge whose paths are all staged
merge_concluded ==
    /\ repo.git /\ repo.merging /\ DOMAIN repo.unmerged = {}
    /\ repo' = [repo EXCEPT !.merging = FALSE, !.dirty = FALSE, !.ahead = TRUE]
    /\ Disturbed
    /\ UNCHANGED <<settings, sender, queue, status, sync_mutex, worker, pc, cfg,
                   trigger, result, cmds, now, probe>>

----------------------------------------------------------------------------
(* Specifications *)

EnabledConfig == Config(TRUE, S_Inbox, S_url, S_main, 45)

DisabledConfig == Config(FALSE, S_Inbox, S_url, S_main, 45)

BlankBranchConfig == Config(TRUE, S_Inbox, S_url, <<" ">>, 45)

RemoteHistory ==
    [FreshRepo EXCEPT !.remote_branch = TRUE, !.behind = TRUE, !.unrelated = TRUE]

\* a repository an earlier sync of another remote URL has left behind
OtherOrigin ==
    [FreshRepo EXCEPT !.folder = TRUE, !.git = TRUE, !.user_name = TRUE,
                      !.user_email = TRUE, !.gitignore = Some(Append(S_DS_Store, "\n")),
                      !.origin = Some(S_url2), !.head = Some(S_main)]

NoHistory ==
    [ quiet |-> FALSE, last_cfg |-> DefaultGitSharingSettings,
      events |-> 0, coalesced |-> 0, last_event_at |-> None,
      edited |-> [n |-> 0, folders |-> {}],
      spawned |-> 0, startups |-> 0,
      iteration |-> {}, last_return |-> None ]

NoProbe == [path |-> <<>>, timestamp |-> <<>>, out |-> Ok]

\* the state at process start: default RuntimeStatus, no worker, the settings
\* file and the linked folder as the user left them
InitWith(configs, repos, conflicts, faults) ==
    /\ settings \in { [ok |-> TRUE, git_sharing |-> c] : c \in configs }
    /\ sender = FALSE
    /\ queue = <<>>
    /\ status = DefaultRuntimeStatus
    /\ sync_mutex = None
    /\ worker = [pending_deadline |-> None, next_periodic_sync |-> 0]
    /\ pc = [t \in Threads |-> IF t = "worker" THEN "not_started" ELSE "idle"]
    /\ cfg = [t \in Threads |-> DefaultGitSharingSettings]
    /\ trigger = [t \in Threads |-> "Manual"]
    /\ result = [t \in Threads |-> Ok]
    /\ cmds = [t \in Threads |-> <<>>]
    /\ loc = [t \in Threads |-> NoLocals]
    /\ repo \in { [r EXCEPT !.remote_conflicts = conflicts, !.faults = faults] : r \in repos }
    /\ now = 0
    /\ hist = NoHistory
    /\ probe = NoProbe

\* the steps of run_sync_operation that every run of a linked, initialised
\* repository takes, on whichever thread runs it
PipelineSteady(t) ==
    \/ rso_validate(t) \/ rso_lock(t) \/ rso_begin(t) \/ linked_folder_path(t)
    \/ erd_create_dir(t) \/ erd_init(t) \/ eli_name(t) \/ eli_email(t)
    \/ ensure_repository_gitignore(t)
    \/ configure_origin_remote(t) \/ erd_checkout(t)
    \/ clc_add(t) \/ clc_status(t) \/ clc_commit(t)
    \/ pwcr_pull(t) \/ pb_push(t)
    \/ rso_end(t) \/ rso_unlock(t)

\* the steps that initialise a repository or change its origin
PipelineBootstrap(t) ==
    \/ erd_init_plain(t) \/ erd_init_checkout(t)
    \/ eli_name_set(t) \/ eli_email_set(t)
    \/ cor_set_url(t) \/ cor_add(t)

\* the steps taken when the remote has moved: unrelated histories, conflicts,
\* a rejected push
PipelineMerge(t) ==
    \/ pwcr_retry(t) \/ list_conflicted_files(t)
    \/ rcd_read2(t) \/ rcd_read3(t) \/ rcd_write(t) \/ rcd_add_dup(t)
    \/ rcd_checkout(t) \/ rcd_add(t) \/ rcd_commit(t)
    \/ pb_retry(t)

Pipeline(t) == PipelineSteady(t) \/ PipelineBootstrap(t) \/ PipelineMerge(t)

WorkerLoop ==
    \/ bwl_init \/ bwl_recv \/ bwl_debounce \/ bwl_periodic
    \/ rsfs_load \/ rsfs_result
    \/ bwl_after_force \/ bwl_after_debounce \/ bwl_after_periodic

SyncNow(t, folders, remotes, branches) ==
    \/ \E f \in folders, r \in remotes, b \in branches : git_sync_now(t, f, r, b)
    \/ gsn_result(t)
    \/ command_return(t)

(* One manual caller driving the pipeline against every repository and     *)
(* remote condition: faults, rejected pushes, unrelated histories and       *)
(* conflicts on up to two paths.                                            *)

MaxFaultsPipeline == 1

PullConflicts ==
    ConflictSets({P_a_md}, StageChoices) \cup [Paths -> {Stages(Some(B_local), Some(B_remote))}]

InitPipeline ==
    InitWith({EnabledConfig}, {FreshRepo, RemoteHistory, OtherOrigin}, PullConflicts,
             MaxFaultsPipeline)

NextPipeline ==
    \/ SyncNow("c1", {S_Inbox}, {S_url}, {None})
    \/ Pipeline("c1")
    \/ note_changed(S_Inbox)
    \/ remote_pushed

SpecPipeline == InitPipeline /\ [][NextPipeline]_vars

(* The worker, serving the ForceSync messages, and a manual caller contend *)
(* for the sync mutex on a repository whose remote is quiet; calls fail.   *)

MaxFaults == 1

FolderInputs == {S_Inbox, <<".", ".">>}

Init == InitWith({EnabledConfig}, {FreshRepo, OtherOrigin}, {NoFiles}, MaxFaults)

Next ==
    \/ start_background_worker
    \/ bwl_init \/ bwl_recv \/ bwl_debounce \/ bwl_periodic
    \/ rsfs_load \/ rsfs_result \/ bwl_after_force
    \/ SyncNow("c1", FolderInputs, {S_url}, {None})
    \/ \E t \in Threads : PipelineSteady(t)
    \/ \E t \in Threads : PipelineBootstrap(t)
    \/ note_changed(S_Inbox)

Spec == Init /\ [][Next]_vars

(* The worker alone, on a linked repository whose remote is quiet: events, *)
(* the debounce window, the periodic sync, and every kind of saved         *)
(* configuration.                                                           *)

\* a repository an earlier sync of the saved configuration has left behind
Linked == [OtherOrigin EXCEPT !.origin = Some(S_url), !.remote_branch = TRUE]

TickSteps == {15}

InvalidFolders ==
    { <<>>, <<" ">>, <<".", ".">>, <<"a", "/", "b">>, <<"a", "\\", "b">>,
      <<"a", NUL>>, <<".", "x">> }

SavedConfigs ==
    {EnabledConfig, BlankBranchConfig, Config(TRUE, S_Inbox, <<" ">>, S_main, 45)}
    \cup { Config(TRUE, f, S_url, S_main, 45) : f \in InvalidFolders }

InitWorker == InitWith(SavedConfigs, {Linked}, {NoFiles}, 0)

NextWorker ==
    \/ start_background_worker
    \/ WorkerLoop
    \/ PipelineSteady("worker")
    \/ note_changed(S_Inbox)
    \/ Tick(TickSteps)

SpecWorker == InitWorker /\ [][NextWorker]_vars

(* conflict_duplicate_relative_path alone, applied to every relative file  *)
(* path git can report, up to MaxPathLen characters.                       *)

MaxPathLen == 5

PathChars == {"a", ".", "/"}

\* the components of a path: the pieces between its slashes
RECURSIVE Components(_)
Components(path) ==
    IF ~ContainsChar(path, "/") THEN <<path>>
    ELSE LET i == CHOOSE k \in 1..Len(path) :
                     path[k] = "/" /\ \A j \in 1..(k - 1) : path[j] # "/"
         IN  <<SubSeq(path, 1, i - 1)>> \o Components(SubSeq(path, i + 1, Len(path)))

\* the paths of files in a work tree: no component is empty, "." or ".."
GitPaths ==
    { path \in UNION { [1..n -> PathChars] : n \in 1..MaxPathLen } :
        \A k \in DOMAIN Components(path) :
            Components(path)[k] \notin {<<>>, <<".">>, <<".", ".">>} }

Timestamps == {<<"0">>, <<"1", "5">>}

\* one call of conflict_duplicate_relative_path
probe_duplicate_path(path, timestamp) ==
    /\ probe' = [path |-> path, timestamp |-> timestamp,
                 out |-> conflict_duplicate_relative_path(path, timestamp)]
    /\ UNCHANGED <<settings, sender, queue, status, sync_mutex, worker, pc, cfg,
                   trigger, result, cmds, loc, repo, now, hist>>

InitPath == InitWith({EnabledConfig}, {FreshRepo}, {NoFiles}, 0)

NextPath == \E path \in GitPaths, timestamp \in Timestamps : probe_duplicate_path(path, timestamp)

SpecPath == InitPath /\ [][NextPath]_vars

(* The worker, serving the startup ForceSync, and a manual caller on a     *)
(* linked repository; the saved configuration may be invalid or disabled,  *)
(* the caller's folder may be invalid; calls fail.                          *)

MaxFaultsStatus == 1

StatusConfigs == {EnabledConfig, BlankBranchConfig, DisabledConfig}

InitStatus == InitWith(StatusConfigs, {Linked}, {NoFiles}, MaxFaultsStatus)

NextStatus ==
    \/ start_background_worker
    \/ bwl_init \/ bwl_recv \/ bwl_debounce \/ bwl_periodic
    \/ rsfs_load \/ rsfs_result \/ bwl_after_force
    \/ SyncNow("c1", FolderInputs, {S_url}, {None})
    \/ \E t \in Threads : PipelineSteady(t)
    \/ note_changed(S_Inbox)

SpecStatus == InitStatus /\ [][NextStatus]_vars

(* One caller preparing and syncing, one call after the other, a           *)
(* repository that is new or linked to another remote; calls fail.         *)

MaxFaultsPrepare == 1

InitPrepare == InitWith({EnabledConfig}, {FreshRepo, OtherOrigin}, {NoFiles}, MaxFaultsPrepare)

NextPrepare ==
    \/ Prepare("c1", FolderInputs, {S_url}, {None})
    \/ SyncNow("c1", {S_Inbox}, {S_url}, {None})
    \/ PipelineSteady("c1")
    \/ PipelineBootstrap("c1")
    \/ note_changed(S_Inbox)

SpecPrepare == InitPrepare /\ [][NextPrepare]_vars

(* The worker syncing the saved configuration while a caller asks for the  *)
(* status and notes change; the settings file may become unreadable.       *)

MaxFaultsQuery == 1

InitQuery == InitWith({EnabledConfig}, {Linked}, {NoFiles}, MaxFaultsQuery)

NextQuery ==
    \/ start_background_worker
    \/ bwl_init \/ bwl_recv \/ bwl_debounce \/ bwl_periodic
    \/ rsfs_load \/ rsfs_result \/ bwl_after_force
    \/ PipelineSteady("worker")
    \/ GetStatus("c1")
    \/ note_changed(S_Inbox)
    \/ settings_unreadable

SpecQuery == InitQuery /\ [][NextQuery]_vars

(* The worker serving ForceSync and NoteChanged messages while notes       *)
(* change and a caller saves the settings; the worker thread may fail to   *)
(* start.                                                                  *)

NotifyConfigs == {EnabledConfig, DisabledConfig}

InitNotify == InitWith(NotifyConfigs, {Linked}, {NoFiles}, 0)

NextNotify ==
    \/ start_background_worker
    \/ bwl_init \/ bwl_recv \/ bwl_debounce \/ bwl_periodic
    \/ rsfs_load \/ rsfs_result \/ bwl_after_force
    \/ PipelineSteady("worker")
    \/ SaveSettings("c1", NotifyConfigs)
    \/ note_changed(S_Inbox)

SpecNotify == InitNotify /\ [][NextNotify]_vars

(* The note commands, and the worker receiving their messages; git sharing *)
(* is disabled, so that no sync runs.                                      *)

InitNotes == InitWith({DisabledConfig}, {Linked}, {NoFiles}, 0)

NextNotes ==
    \/ start_background_worker
    \/ bwl_init \/ bwl_recv \/ bwl_debounce \/ bwl_periodic
    \/ rsfs_load \/ bwl_after_force
    \/ NoteCommands

SpecNotes == InitNotes /\ [][NextNotes]_vars

(* The worker alone on a linked repository, for stored intervals below,   *)
(* at and above the floor and beyond the range of an Instant; time passes, *)
(* notes change, the settings file may become unreadable.                  *)

\* a stored u64 that Instant::now() + Duration cannot hold, scaled down
HugeInterval == 2000

StoredIntervals == {0, 45, 60, 90, HugeInterval}

InitInterval ==
    InitWith({ Config(TRUE, S_Inbox, S_url, S_main, i) : i \in StoredIntervals },
             {Linked}, {NoFiles}, 0)

NextInterval ==
    \/ start_background_worker
    \/ WorkerLoop
    \/ PipelineSteady("worker")
    \/ note_changed(S_Inbox)
    \/ Tick(TickSteps)
    \/ settings_unreadable

SpecInterval == InitInterval /\ [][NextInterval]_vars

(* The worker alone on a linked repository with uncommitted notes: every   *)
(* outcome of a background sync (unreadable settings, an invalid           *)
(* configuration, a failing command, a failing index rebuild), followed by *)
(* the next ForceSync; a caller saves settings, whose interval may be      *)
(* beyond the range of an Instant.                                         *)

MaxFaultsResilience == 1

InvalidConfig_DotDot == Config(TRUE, <<".", ".">>, S_url, S_main, 45)

HugeIntervalConfig == Config(TRUE, S_Inbox, S_url, S_main, HugeInterval)

InitResilience ==
    InitWith({EnabledConfig, InvalidConfig_DotDot}, {[Linked EXCEPT !.dirty = TRUE]},
             {NoFiles}, MaxFaultsResilience)

NextResilience ==
    \/ start_background_worker
    \/ bwl_init \/ bwl_recv \/ bwl_debounce \/ bwl_periodic
    \/ rsfs_load \/ rsfs_result \/ bwl_after_force
    \/ PipelineSteady("worker")
    \/ SaveSettings("c1", {EnabledConfig, HugeIntervalConfig})
    \/ settings_unreadable

SpecResilience == InitResilience /\ [][NextResilience]_vars

(* build_ad_hoc_config applied to every folder, remote URL and optional   *)
(* branch of up to MaxAdHocLen characters, and a caller preparing and      *)
(* syncing with inputs typed with blanks around them while the saved       *)
(* configuration is another one.                                           *)

MaxAdHocLen == 3

MaxFaultsAdHoc == 1

AdHocStrings == UNION { [1..n -> {"a", " "}] : n \in 0..MaxAdHocLen }

AdHocBranches == {None} \cup { Some(b) : b \in AdHocStrings }

TypedFolders == { <<" ">> \o S_Inbox \o <<" ">> }

TypedBranches == {None, Some(<<" ">>)}

\* one call of build_ad_hoc_config
probe_build_ad_hoc_config(folder, remote_url, branch) ==
    /\ probe' = [folder |-> folder, remote_url |-> remote_url, branch |-> branch,
                 out |-> build_ad_hoc_config(folder, remote_url, branch)]
    /\ UNCHANGED <<settings, sender, queue, status, sync_mutex, worker, pc, cfg,
                   trigger, result, cmds, loc, repo, now, hist>>

InitAdHoc ==
    InitWith({DisabledConfig}, {[FreshRepo EXCEPT !.folder = TRUE, !.dirty = TRUE], OtherOrigin},
             {NoFiles}, MaxFaultsAdHoc)

NextAdHoc ==
    \/ /\ probe = NoProbe /\ status = DefaultRuntimeStatus /\ pc["c1"] = "idle"
       /\ \E f \in AdHocStrings, r \in AdHocStrings, b \in AdHocBranches :
            probe_build_ad_hoc_config(f, r, b)
    \/ /\ probe = NoProbe
       /\ \/ Prepare("c1", TypedFolders, {S_url}, TypedBranches)
          \/ SyncNow("c1", TypedFolders, {S_url}, TypedBranches)
          \/ PipelineSteady("c1")
          \/ PipelineBootstrap("c1")

SpecAdHoc == InitAdHoc /\ [][NextAdHoc]_vars

(* Two threads calling start_background_worker, again and again, while   *)
(* notes change and the worker, once spawned, serves its queue; git       *)
(* sharing is disabled, so that no sync runs.                              *)

Starters == {"s1", "s2"}

InitStart ==
    /\ settings = [ok |-> TRUE, git_sharing |-> DisabledConfig]
    /\ sender = FALSE
    /\ queue = <<>>
    /\ status = DefaultRuntimeStatus
    /\ sync_mutex = None
    /\ worker = [pending_deadline |-> None, next_periodic_sync |-> 0]
    /\ pc = [t \in Threads \cup Starters |->
                IF t = "worker" THEN "not_started" ELSE "idle"]
    /\ cfg = [t \in Threads |-> DefaultGitSharingSettings]
    /\ trigger = [t \in Threads |-> "Manual"]
    /\ result = [t \in Threads |-> Ok]
    /\ cmds = [t \in Threads |-> <<>>]
    /\ loc = [t \in Threads |-> NoLocals]
    /\ repo = [Linked EXCEPT !.remote_conflicts = NoFiles]
    /\ now = 0
    /\ hist = NoHistory
    /\ probe = NoProbe

NextStart ==
    \/ \E s \in Starters : StartWorker(s)
    \/ bwl_init \/ bwl_recv \/ bwl_debounce \/ bwl_periodic
    \/ rsfs_load \/ bwl_after_force
    \/ note_changed(S_Inbox)

SpecStart == InitStart /\ [][NextStart]_vars

(* The worker syncing the saved configuration while a caller prepares the *)
(* same repository; notes change, calls fail.                              *)

MaxFaultsOverlap == 1

InitOverlap == InitWith({EnabledConfig}, {Linked}, {NoFiles}, MaxFaultsOverlap)

NextOverlap ==
    \/ start_background_worker
    \/ bwl_init \/ bwl_recv \/ bwl_debounce \/ bwl_periodic
    \/ rsfs_load \/ rsfs_result \/ bwl_after_force
    \/ \E t \in Threads : PipelineSteady(t)
    \/ Prepare("c1", {S_Inbox}, {S_url}, {None})
    \/ command_return("c1")
    \/ note_changed(S_Inbox)

SpecOverlap == InitOverlap /\ [][NextOverlap]_vars

(* The manual caller's pipeline of SpecPipeline on a folder in which a     *)
(* second git client may conclude a merge between two commands.           *)

NextResolve ==
    \/ NextPipeline
    \/ merge_concluded

SpecResolve == InitPipeline /\ [][NextResolve]_vars

(* The worker alone over two periodic intervals: time passes while the    *)
(* worker waits for a message or is inside a sync, which may take long.    *)

InitPeriodic == InitWith({EnabledConfig, DisabledConfig}, {Linked}, {NoFiles}, 0)

NextPeriodic ==
    \/ start_background_worker
    \/ WorkerLoop
    \/ PipelineSteady("worker")
    \/ note_changed(S_Inbox)
    \/ Elapse({30})

SpecPeriodic == InitPeriodic /\ [][NextPeriodic]_vars

(* The worker alone with its debounce window: notes change, the saved      *)
(* configuration may be one whose sync fails, and a caller disables git    *)
(* sharing while a deadline is pending.                                    *)

InitDebounce == InitWith({EnabledConfig, BlankBranchConfig}, {Linked}, {NoFiles}, 0)

NextDebounce ==
    \/ start_background_worker
    \/ WorkerLoop
    \/ PipelineSteady("worker")
    \/ note_changed(S_Inbox)
    \/ SaveSettings("c1", {DisabledConfig})
    \/ Tick(TickSteps)

SpecDebounce == InitDebounce /\ [][NextDebounce]_vars

(* The worker receiving NoteChanged events of the linked folder, padded    *)
(* otherwise than in the settings, and of another folder, while a caller   *)
(* disables git sharing; the saved configuration is a linked one whose     *)
(* sync fails at validation, so that no git command runs.                  *)

PaddedFolderConfig == Config(TRUE, <<" ">> \o S_Inbox, S_url, <<" ">>, 45)

EventFolders == {S_Inbox \o <<" ">>, S_Work}

InitEvents == InitWith({PaddedFolderConfig}, {Linked}, {NoFiles}, 0)

NextEvents ==
    \/ start_background_worker
    \/ bwl_init \/ bwl_recv \/ bwl_debounce \/ bwl_periodic
    \/ rsfs_load \/ rso_validate("worker") \/ rsfs_result
    \/ bwl_after_force \/ bwl_after_debounce \/ bwl_after_periodic
    \/ \E f \in EventFolders : note_changed(f)
    \/ SaveSettings("c1", {DisabledConfig})
    \/ Tick(TickSteps)

SpecEvents == InitEvents /\ [][NextEvents]_vars

(* The worker alone with sync enabled under a stream of NoteChanged events *)
(* that may never end: the worker thread keeps running, every call it      *)
(* makes returns, and time passes.                                         *)

InitStream == InitWith({EnabledConfig}, {Linked}, {NoFiles}, 0)

WorkerStep ==
    \/ start_background_worker
    \/ WorkerLoop
    \/ PipelineSteady("worker")

NextStream ==
    \/ WorkerStep
    \/ note_changed(S_Inbox)
    \/ Tick(TickSteps)

SpecStream ==
    /\ InitStream /\ [][NextStream]_vars
    /\ WF_vars(WorkerStep)
    /\ WF_vars(Tick(TickSteps))

(* One caller preparing, call after call, a folder whose ignore file,      *)
(* commit identity and origin are as the user or an earlier run left them; *)
(* calls fail.                                                             *)

MaxFaultsBootstrap == 1

S_tmp == <<"*", "t">>

IgnoreFiles ==
    { None,
      Some(<<>>),
      Some(Append(S_DS_Store, "\n")),
      Some(<<" ">> \o S_DS_Store \o <<" ", "\r", "\n">> \o S_tmp),
      Some(S_tmp),
      Some(S_tmp \o <<"\r", "\n", "\n", "x", "\n">>),
      Some(<<"#", InvalidByte, "\n">> \o S_tmp \o <<"\n">>),
      Some(S_DS_Store \o <<"\n", "#", InvalidByte>>) }

BootstrapRepos ==
    {FreshRepo}
    \cup { [FreshRepo EXCEPT !.folder = TRUE, !.gitignore = f] : f \in IgnoreFiles }
    \cup { [OtherOrigin EXCEPT !.gitignore = f, !.user_name = n, !.user_email = e,
                               !.origin = o] :
             f \in IgnoreFiles, n \in BOOLEAN, e \in BOOLEAN,
             o \in {None, Some(S_url), Some(S_url2)} }

InitBootstrap == InitWith({EnabledConfig}, BootstrapRepos, {NoFiles}, MaxFaultsBootstrap)

\* ensure_repository_ready
Bootstrap(t) ==
    \/ linked_folder_path(t) \/ erd_create_dir(t)
    \/ erd_init(t) \/ erd_init_plain(t) \/ erd_init_checkout(t)
    \/ eli_name(t) \/ eli_name_set(t) \/ eli_email(t) \/ eli_email_set(t)
    \/ ensure_repository_gitignore(t)
    \/ configure_origin_remote(t) \/ cor_set_url(t) \/ cor_add(t)
    \/ erd_checkout(t)

NextBootstrap ==
    \/ Prepare("c1", {S_Inbox}, {S_url}, {None})
    \/ Bootstrap("c1")
    \/ command_return("c1")

SpecBootstrap == InitBootstrap /\ [][NextBootstrap]_vars

(* The worker with its debounce window on a linked repository whose syncs  *)
(* succeed, while a caller syncs by hand, asks for the status and saves    *)
(* the settings again, which sends a ForceSync.                            *)

InitPending == InitWith({EnabledConfig}, {Linked}, {NoFiles}, 0)

CallerStep ==
    \/ SyncNow("c1", {S_Inbox}, {S_url}, {None})
    \/ PipelineSteady("c1")
    \/ GetStatus("c1")

\* the instants at which the debounce deadline of an event at 0 has passed
\* and the periodic deadline falls
PendingInstants == {45, 60}

NextPending ==
    \/ WorkerStep
    \/ CallerStep
    \/ note_changed(S_Inbox)
    \/ TickTo(PendingInstants)

SpecPending == InitPending /\ [][NextPending]_vars

(* The same, every call of the worker returning and time passing without  *)
(* end: the worker cannot go round its loop for ever within one instant.   *)

SpecEventual ==
    /\ InitPeriodic /\ [][NextPeriodic]_vars
    /\ WF_vars(WorkerStep)
    /\ SF_vars(Elapse({30}))

(* The worker with a change pending: notes change at quiet moments, and   *)
(* while a change is pending a caller syncs by hand or saves the settings  *)
(* again, which sends a ForceSync; every sync succeeds.                    *)

NextForce ==
    \/ WorkerStep
    \/ /\ status.pending_changes /\ queue = <<>>
       /\ \/ git_sync_now("c1", S_Inbox, S_url, None)
          \/ save_settings("c1", EnabledConfig)
    \/ gsn_result("c1") \/ ss_notify("c1") \/ command_return("c1")
    \/ PipelineSteady("c1")
    \/ queue = <<>> /\ pc["c1"] = "idle" /\ note_changed(S_Inbox)
    \/ TickTo(PendingInstants)

SpecForce == InitPending /\ [][NextForce]_vars

(* Git sharing is switched off while the worker runs: notes change, a      *)
(* caller saves the disabled configuration and then syncs by hand.         *)

NextDisabled ==
    \/ WorkerStep
    \/ settings.git_sharing.enabled /\ save_settings("c1", DisabledConfig)
    \/ ss_notify("c1") \/ command_return("c1")
    \/ ~settings.git_sharing.enabled /\ git_sync_now("c1", S_Inbox, S_url, None)
    \/ gsn_result("c1")
    \/ PipelineSteady("c1")
    \/ settings.git_sharing.enabled /\ note_changed(S_Inbox)
    \/ TickTo(PendingInstants)

SpecDisabled == InitPending /\ [][NextDisabled]_vars

----------------------------------------------------------------------------
(* Properties *)



\* the labels of the section of run_sync_operation between the status update
\* that sets syncing and the one that resets it: folder, bootstrap, commit,
\* pull, push
PipelineLabels ==
    { "linked_folder_path", "erd_create_dir", "erd_init", "erd_init_plain",
      "erd_init_checkout", "eli_name", "eli_name_set", "eli_email",
      "eli_email_set", "ensure_repository_gitignore", "configure_origin_remote",
      "cor_set_url", "cor_add", "erd_checkout", "clc_add", "clc_status",
      "clc_commit", "pwcr_pull", "pwcr_retry", "list_conflicted_files",
      "rcd_read2", "rcd_read3", "rcd_write", "rcd_add_dup", "rcd_checkout",
      "rcd_add", "rcd_commit", "pb_push", "pb_retry" }

InPipeline(t) == pc[t] \in PipelineLabels

HasPrefix(s, prefix) == Len(s) >= Len(prefix) /\ SubSeq(s, 1, Len(prefix)) = prefix

Logged(t, entry) == \E i \in DOMAIN cmds[t] : cmds[t][i] = entry

\* C1: in every reachable state at most one thread is inside the pipeline of
\* run_sync_operation, and the thread inside it holds the sync mutex, so that
\* a second request waits at the mutex until the first has left the pipeline.
C1_OnePipeline ==
    /\ \A t1, t2 \in Threads : InPipeline(t1) /\ InPipeline(t2) => t1 = t2
    /\ \A t \in Threads : InPipeline(t) => sync_mutex = Some(t)

\* one thread is inside the pipeline while the other waits at the mutex
C1_Witness ==
    \E t1, t2 \in Threads : InPipeline(t1) /\ pc[t2] = "rso_lock"

\* what the claim C2 calls an invalid configuration
InvalidConfig(c) ==
    LET folder == Trim(c.shared_folder)
    IN  \/ folder = <<>>
        \/ Trim(c.remote_url) = <<>>
        \/ Trim(c.branch) = <<>>
        \/ ContainsStr(folder, <<".", ".">>)
        \/ \E ch \in {"/", "\\", NUL} : ContainsChar(folder, ch)
        \/ StartsWithChar(folder, ".")

\* C2: for an invalid configuration (folder, remote URL or branch empty after
\* trimming, or an unsafe folder name) run_sync_operation returns an error
\* in its first step: the mutex is not taken, no folder is created, no git
\* command is run, and the runtime status is not changed.
C2_InvalidConfigRejected ==
    [][\A t \in Threads :
         (pc[t] = "rso_validate" /\ InvalidConfig(cfg[t]) /\ pc'[t] # pc[t])
         => /\ pc'[t] = "rso_return"
            /\ ~result'[t].ok
            /\ UNCHANGED <<status, sync_mutex, repo, cmds>>]_vars

\* a run with a blank branch has returned its error; nothing has run
C2_Witness ==
    \E t \in Threads :
        /\ pc[t] = "rso_return"
        /\ Trim(cfg[t].branch) = <<>>
        /\ ~result[t].ok
        /\ cmds[t] = <<>> /\ sync_mutex = None /\ ~status.syncing

BootstrapCmds ==
    { "create_dir_all", "git init -b", "git init", "git checkout -B",
      "git config --get user.name", "git config user.name",
      "git config --get user.email", "git config user.email",
      "write .gitignore", "git remote get-url", "git remote set-url",
      "git remote add" }

CommitCmds == {"git add -A", "git status", "git commit"}

PullCmds ==
    { "git pull", "git pull --allow-unrelated-histories",
      "git diff --diff-filter=U", "git show :2", "git show :3",
      "write duplicate", "git add duplicate", "git checkout --theirs",
      "git add conflicted", "git commit resolution" }

\* the step of the attempt a logged command belongs to
StepOf(entry) ==
    IF entry \in BootstrapCmds THEN "bootstrap"
    ELSE IF entry \in CommitCmds THEN "commit"
    ELSE IF entry \in PullCmds THEN "pull"
    ELSE "push"

StepsFrom(step) ==
    CASE step = "bootstrap" -> {"bootstrap", "commit", "pull", "push"}
      [] step = "commit" -> {"commit", "pull", "push"}
      [] step = "pull" -> {"pull", "push"}
      [] OTHER -> {"push"}

Pushes(t) == { i \in DOMAIN cmds[t] : cmds[t][i] = "git push" }

\* C3: within one attempt the commands run in the order bootstrap, commit,
\* pull, push up to the first push; the first pull command comes after the
\* status query of the commit step, the first push after a pull; and once a
\* step has failed the attempt is at its end, with no further step running.
C3_StepOrder ==
    \A t \in Threads :
        LET log == cmds[t]
            First(S) == IF S = {} THEN Len(log) + 1
                        ELSE CHOOSE i \in S : \A j \in S : i <= j
            first_status == First({ i \in DOMAIN log : log[i] = "git status" })
            first_pull == First({ i \in DOMAIN log : StepOf(log[i]) = "pull" })
            first_push == First(Pushes(t))
        IN  /\ \A j \in 2..Len(log) :
                   j <= first_push => StepOf(log[j]) \in StepsFrom(StepOf(log[j - 1]))
            /\ first_pull <= Len(log) => first_status < first_pull
            /\ first_push <= Len(log)
               => \E i \in 1..(first_push - 1) : log[i] = "git pull"
            /\ InPipeline(t) => result[t].ok

\* an attempt has committed, pulled and pushed, and ends in success
C3_Witness ==
    \E t \in Threads :
        /\ pc[t] = "rso_end" /\ result[t].ok
        /\ Logged(t, "git commit") /\ Logged(t, "git pull") /\ Logged(t, "git push")

\* the first push failed with text classified as non-fast-forward or
\* fetch-first
Rejected(output) ==
    /\ output.launched /\ output.status_code # 0
    /\ LET text == to_lowercase(command_error_message(output))
       IN  contains(text, "non-fast-forward") \/ contains(text, "fetch first")

\* C4: an attempt issues the push at most twice; a second push is issued
\* only after a first push rejected as non-fast-forward or fetch-first and a
\* pull in between, and it is issued whenever that pull succeeds; a first
\* push that fails otherwise is the last command of the attempt.
C4_PushRetry ==
    \A t \in Threads :
        LET log == cmds[t]
            first == CHOOSE i \in Pushes(t) : \A j \in Pushes(t) : i <= j
        IN  /\ Cardinality(Pushes(t)) <= 2
            /\ Cardinality(Pushes(t)) = 2
               => /\ Rejected(loc[t].push_output)
                  /\ \E k \in DOMAIN log :
                        /\ log[k] = "git pull"
                        /\ \E i, j \in Pushes(t) : i < k /\ k < j
            /\ (Pushes(t) # {} /\ ~Rejected(loc[t].push_output)) => first = Len(log)
            /\ (pc[t] = "rso_end" /\ Cardinality(Pushes(t)) = 1
                               /\ Rejected(loc[t].push_output))
               => ~result[t].ok

\* an attempt whose first push was rejected has pulled, pushed again and
\* ends in success
C4_Witness ==
    \E t \in Threads :
        pc[t] = "rso_end" /\ result[t].ok /\ Cardinality(Pushes(t)) = 2

\* the closure has returned the error of the retry push
RetryPushFailed(t) ==
    pc[t] = "rso_end" /\ ~result[t].ok /\ Cardinality(Pushes(t)) = 2

\* C5 as stated: when the retry push fails too, the error of the sync is
\* prefixed with "Failed to push to origin/<branch>".
C5_Original ==
    \A t \in Threads :
        RetryPushFailed(t)
        => HasPrefix(Unwrap(result[t].err),
                     <<"Failed to push to origin/">> \o normalized_branch(cfg[t].branch))

\* C5: when the retry push fails too, the error of the sync is "Failed to
\* push synced notes to remote: <message of git>", or the launch error when
\* git could not be started; it is what the closure returns and what
\* last_error holds after the status update.
C5_RetryPushError ==
    \A t \in Threads :
        /\ RetryPushFailed(t)
           => \/ HasPrefix(Unwrap(result[t].err),
                           <<"Failed to ", "push synced notes to remote", ": ">>)
              \/ result[t].err = Some(E_launch)
        /\ (pc[t] = "rso_unlock" /\ ~result[t].ok) => status.last_error = result[t].err

\* the retry push has been rejected by git
C5_Witness ==
    \E t \in Threads :
        /\ RetryPushFailed(t)
        /\ HasPrefix(Unwrap(result[t].err),
                     <<"Failed to ", "push synced notes to remote", ": ">>)

\* the worker has just invoked the debounced sync
DebouncedSyncInvoked ==
    pc["worker"] = "rsfs_load" /\ trigger["worker"] = "DebouncedSave"

\* C6: every NoteChanged event of the linked folder replaces the pending
\* deadline by the time it was processed plus the debounce window, and a
\* debounced sync is invoked only for at least one event processed since the
\* previous debounced sync, all of them served by this one invocation, and
\* no earlier than the debounce window after the last of them was processed.
C6_DebounceCoalesces ==
    /\ IsSome(worker.pending_deadline)
       => /\ IsSome(hist.last_event_at)
          /\ Unwrap(worker.pending_deadline)
               = Unwrap(hist.last_event_at) + DEFAULT_DEBOUNCE_SECONDS
    /\ DebouncedSyncInvoked
       => /\ hist.coalesced >= 1
          /\ hist.events = 0
          /\ now >= Unwrap(hist.last_event_at) + DEFAULT_DEBOUNCE_SECONDS

\* one debounced sync is invoked for two or more events
C6_Witness == DebouncedSyncInvoked /\ hist.coalesced >= 2

\* resolve_conflicts_by_duplication has just returned Ok, in an attempt in
\* which no call has failed for a reason outside the repository
ResolveSucceeded(t) ==
    /\ pc[t] \in {"pb_push", "pb_retry"}
    /\ cmds[t] # <<>> /\ cmds[t][Len(cmds[t])] = "git commit resolution"
    /\ loc[t].faults_at_start = repo.faults

\* C7 as stated: after resolve_conflicts_by_duplication succeeds, every
\* conflicted path holds the stage 3 (theirs) version and its duplicate holds
\* the stage 2 (ours) version, or the stage 3 version when there is no
\* readable stage 2.
C7_Original ==
    \A t \in Threads :
        ResolveSucceeded(t)
        => \A i \in DOMAIN loc[t].conflicted :
             LET path == loc[t].conflicted[i]
                 stage == loc[t].stages[path]
                 duplicate == conflict_duplicate_relative_path(path, loc[t].timestamp).path
             IN  /\ path \in DOMAIN repo.files
                 /\ repo.files[path] = stage.s3
                 /\ duplicate \in DOMAIN repo.files
                 /\ repo.files[duplicate] = IF IsSome(stage.s2) THEN stage.s2 ELSE stage.s3

\* a conflict whose local version is text has been resolved: both versions
\* are kept
C7_Witness ==
    \E t \in Threads :
        /\ ResolveSucceeded(t)
        /\ loc[t].stages[loc[t].conflicted[1]].s2 = Some(B_local)
        /\ repo.files[conflict_duplicate_relative_path(loc[t].conflicted[1],
                                                       loc[t].timestamp).path] = Some(B_local)

\* the file name of a relative path and the directory prefix before it
NameOf(path) == SubSeq(path, LastIndexOf(path, "/") + 1, Len(path))

DirOf(path) == SubSeq(path, 1, LastIndexOf(path, "/"))

\* C8 as stated: the duplicate of a path lies in the same directory, is
\* named <stem>-conflict-<T>.<ext> when the file name has a last '.' with a
\* non-empty stem before it and <name>-conflict-<T> when it has no
\* extension, and is never the conflicted path itself.  A file name that ends
\* in its last '.' may be read either way: both names are accepted for it.
C8_Original ==
    probe # NoProbe
    => LET name == NameOf(probe.path)
           dot == LastIndexOf(name, ".")
           with_extension == SubSeq(name, 1, dot - 1) \o S_conflict \o probe.timestamp
                             \o <<".">> \o SubSeq(name, dot + 1, Len(name))
           without_extension == name \o S_conflict \o probe.timestamp
           expected == IF dot <= 1 THEN {without_extension}
                       ELSE IF dot = Len(name) THEN {with_extension, without_extension}
                       ELSE {with_extension}
       IN  /\ probe.out.ok
           /\ \E duplicate_name \in expected :
                 probe.out.path = DirOf(probe.path) \o duplicate_name
           /\ probe.out.path # probe.path

\* the duplicate of a file with an extension inside a directory
C8_Witness ==
    /\ probe # NoProbe
    /\ probe.path = <<"a", "/", "a", ".", "a">>
    /\ probe.out.path = <<"a", "/", "a">> \o S_conflict \o probe.timestamp \o <<".", "a">>

\* C9: an attempt that starts after a successful sync of the same
\* configuration, with no local or remote change since and no call failing
\* for a reason outside the repository, issues no commit and ends in success.
C9_SecondSyncNoCommit ==
    \A t \in Threads :
        (loc[t].undisturbed /\ loc[t].faults_at_start = repo.faults)
        => /\ ~Logged(t, "git commit") /\ ~Logged(t, "git commit resolution")
           /\ pc[t] # "clc_commit"
           /\ result[t].ok
           /\ pc[t] = "rso_end" => Logged(t, "git status") /\ Logged(t, "git push")

\* the second of two attempts in succession has ended in success
C9_Witness ==
    \E t \in Threads :
        /\ pc[t] = "rso_end" /\ result[t].ok
        /\ loc[t].undisturbed /\ loc[t].faults_at_start = repo.faults

\* C10: syncing is true only while a thread holds the sync mutex between
\* the status update that sets it and the one that resets it, and it is true
\* throughout the pipeline; in particular it is false whenever the mutex is
\* free, after a success and after a failure.
C10_SyncingUnderMutex ==
    /\ status.syncing
       => \E t \in Threads : sync_mutex = Some(t) /\ (InPipeline(t) \/ pc[t] = "rso_end")
    /\ \A t \in Threads : InPipeline(t) => status.syncing
    /\ sync_mutex = None => ~status.syncing

\* a failed run has reset syncing and still holds the mutex, another thread
\* waits for it
C10_Witness ==
    \E t1, t2 \in Threads :
        /\ pc[t1] = "rso_unlock" /\ ~result[t1].ok /\ sync_mutex = Some(t1)
        /\ ~status.syncing
        /\ pc[t2] = "rso_lock"

\* the step by which thread t leaves the given label
Leaves(t, label) == pc[t] = label /\ pc'[t] # label

\* the steps that can change last_sync_at, and what a failed pipeline records
LastSyncAtSteps ==
    /\ status'.last_sync_at # status.last_sync_at
       => \E t \in Threads : Leaves(t, "rso_end") /\ result[t].ok
    /\ \A t \in Threads :
         /\ (Leaves(t, "rso_end") /\ ~result[t].ok)
            => /\ status'.last_sync_at = status.last_sync_at
               /\ status'.last_error = result[t].err
         /\ Leaves(t, "rso_validate") => status' = status

\* C11 as stated: last_sync_at changes only in the step that ends a pipeline
\* whose every step succeeded; a failed pipeline leaves it unchanged and
\* records its error in last_error; and the error of a run rejected by
\* validation is recorded in last_error when the run is handed back.
C11_Original ==
    [][ /\ LastSyncAtSteps
        /\ \A t \in Threads :
             (Leaves(t, "rso_return") /\ ~result[t].ok /\ InvalidConfig(cfg[t]))
             => status'.last_error = result[t].err ]_vars

\* C11 amended: as C11, except that the error of a run rejected by validation
\* is recorded only by run_sync_from_saved_settings on the worker; a manual
\* sync_now returns it and leaves the whole status as it is.
C11_LastSyncAt ==
    [][ /\ LastSyncAtSteps
        /\ (Leaves("worker", "rso_return") /\ ~result["worker"].ok)
           => /\ status'.last_error = result["worker"].err
              /\ status'.last_sync_at = status.last_sync_at
        /\ \A t \in Callers :
             (Leaves(t, "rso_return") /\ ~result[t].ok) => status' = status ]_vars

\* after an earlier success, a manual sync rejected by validation has
\* returned its error and last_error does not hold it
C11_Witness ==
    \E t \in Callers :
        /\ pc[t] = "returned" /\ ~result[t].ok /\ InvalidConfig(cfg[t])
        /\ IsSome(status.last_sync_at)
        /\ status.last_error # result[t].err

\* the worker is at the statement after a run_sync_from_saved_settings call
AfterSyncLabels == {"bwl_after_force", "bwl_after_debounce", "bwl_after_periodic"}

\* C12: when a manual sync_now is about to return, and when a background
\* trigger has been served, the index has been rebuilt if and only if the
\* pipeline ran and returned success: not after a failed or rejected sync,
\* not after a trigger skipped because sync is disabled, and at no other
\* point of a call.
C12_RebuildIffSuccess ==
    /\ \A t \in Callers : pc[t] = "returned" => (loc[t].rebuilt <=> result[t].ok)
    /\ pc["worker"] \in AfterSyncLabels
       => (loc["worker"].rebuilt <=> (loc["worker"].op = "sync" /\ result["worker"].ok))
    /\ \A t \in Threads : loc[t].rebuilt => pc[t] \in {"returned"} \cup AfterSyncLabels

\* a background sync has succeeded and rebuilt the index while a manual sync
\* has failed and has not
C12_Witness ==
    /\ pc["worker"] \in AfterSyncLabels /\ loc["worker"].rebuilt
    /\ \E t \in Callers : pc[t] = "returned" /\ ~result[t].ok /\ ~loc[t].rebuilt

\* C13: every step taken while a thread runs git_prepare_repository leaves
\* RuntimeStatus unchanged, and the commands of the call are bootstrap
\* commands only: it stages, commits, pulls and pushes nothing, whether it
\* returns Ok or Err.
C13_PrepareOnlyBootstraps ==
    [][ \A t \in Callers :
          (loc[t].op = "prepare" \/ loc'[t].op = "prepare")
          => /\ status' = status
             /\ \A i \in DOMAIN cmds'[t] : cmds'[t][i] \in BootstrapCmds
             /\ pc'[t] \notin {"rso_lock", "rso_begin", "rso_end", "clc_add", "clc_status",
                               "clc_commit", "pwcr_pull", "pb_push"} ]_vars

\* after a sync has left a status behind, a prepare call has bootstrapped
\* the repository and is about to return Ok
C13_Witness ==
    \E t \in Callers :
        /\ loc[t].op = "prepare" /\ pc[t] = "returned" /\ result[t].ok
        /\ IsSome(status.last_sync_at)
        /\ repo.origin = Some(S_url)

\* the positions of a thread inside run_sync_operation between the two
\* status updates, the sync mutex held
InFlight(u) == loc[u].op = "sync" /\ pc[u] \in PipelineLabels \cup {"rso_end"}

\* C14: get_sync_status is never blocked: whatever the other threads do and
\* whoever holds the sync mutex, its next step can be taken; it takes no
\* step of the pipeline and never holds the sync mutex; and when it reads
\* the status while another thread is between the two status updates of
\* run_sync_operation (git calls running, sync mutex held), it returns
\* syncing = true.  Every read and write of RuntimeStatus is one step.
C14_StatusNeverWaits ==
    /\ [](\A t \in Callers :
            /\ pc[t] = "idle" => ENABLED git_get_sync_status(t)
            /\ pc[t] = "ggs_status" => ENABLED ggs_status(t)
            /\ loc[t].op = "status" => sync_mutex # Some(t))
    /\ [][ \A t \in Callers :
             Leaves(t, "ggs_status")
             => /\ pc'[t] = "returned"
                /\ result'[t].ok
                /\ result'[t].value.syncing
                     = (\E u \in Threads : InFlight(u))
                /\ status' = status ]_vars

\* a status query has returned syncing = true while the worker holds the sync
\* mutex inside the pipeline
C14_Witness ==
    \E t \in Callers :
        /\ pc[t] = "returned" /\ loc[t].op = "status"
        /\ result[t].ok /\ result[t].value.syncing
        /\ sync_mutex = Some("worker")
        /\ pc["worker"] \in {"clc_add", "pwcr_pull", "pb_push"}

WorkerRunning == sender /\ pc["worker"] \notin {"not_started", "dead"}

\* the worker is inside run_sync_from_saved_settings
WorkerInSync ==
    pc["worker"] \in PipelineLabels \cup {"rsfs_load", "rso_validate", "rso_lock", "rso_begin",
                                         "rso_end", "rso_unlock", "rso_return"}

IsPrefix(p, q) == Len(p) <= Len(q) /\ SubSeq(q, 1, Len(p)) = p

\* C15: a notify call can always be taken, wherever the worker stands and
\* whoever holds the sync mutex, and it moves neither; the queue changes
\* only by a message appended at its end or by the worker taking its first
\* message at recv; while the worker is inside a sync the queue only grows
\* at its end, so that the messages are received afterwards in the order
\* they were sent.
C15_NotifyNeverWaits ==
    /\ [](CanSend => /\ ENABLED note_changed(S_Inbox)
                     /\ \A t \in Callers : pc[t] = "ss_notify" => ENABLED ss_notify(t))
    /\ [][ /\ queue' # queue
              => \/ /\ \E msg \in {ForceSync, NoteChanged(S_Inbox)} : queue' = Append(queue, msg)
                    /\ sync_mutex' = sync_mutex
                    /\ pc["worker"] # "not_started" => pc'["worker"] = pc["worker"]
                 \/ /\ pc["worker"] = "bwl_recv" /\ queue # <<>> /\ queue' = Tail(queue)
                    /\ pc'["worker"] = IF Head(queue) = ForceSync THEN "rsfs_load"
                                       ELSE "bwl_debounce"
           /\ WorkerInSync => IsPrefix(queue, queue')
           /\ \A t \in Callers : Leaves(t, "ss_notify") => pc'[t] = "returned" ]_vars

\* while the worker holds the sync mutex at the pull, a note change and a
\* saved setting have been notified, and the caller has returned
C15_Witness ==
    /\ sync_mutex = Some("worker") /\ pc["worker"] = "pwcr_pull"
    /\ queue = <<NoteChanged(S_Inbox), ForceSync>>
    /\ pc["c1"] = "returned" /\ loc["c1"].op = "save_settings"

\* the steps of a save_settings call but for what its notify enqueues: the
\* write enqueues nothing, a failed write leaves the settings as they were
\* and returns at once, and the notify follows a successful write
SaveSettingsSteps ==
    \A t \in Callers :
        /\ (pc[t] = "idle" /\ loc'[t].op = "save_settings")
           => /\ queue' = queue
              /\ pc'[t] = "ss_notify" => settings'.ok
              /\ pc'[t] # "ss_notify" => pc'[t] = "returned" /\ ~result'[t].ok
                                          /\ settings' = settings
        /\ Leaves(t, "ss_notify")
           => /\ result[t].ok /\ settings' = settings
              /\ pc'[t] = "returned" /\ result'[t].ok

\* C17 as stated: every save_settings call that has written the settings
\* enqueues exactly one ForceSync, after the write; a call that fails to
\* write enqueues none.
C17_Original ==
    [][ /\ SaveSettingsSteps
        /\ \A t \in Callers :
              Leaves(t, "ss_notify") => queue' = Append(queue, ForceSync) ]_vars

\* C17: every save_settings call that has written the settings enqueues
\* exactly one ForceSync, after the write, when the worker thread is
\* running, and nothing when the worker was never started or failed to
\* start; a call that fails to write enqueues none.
C17_ForceSyncAfterSave ==
    [][ /\ SaveSettingsSteps
        /\ \A t \in Callers :
              Leaves(t, "ss_notify")
              => queue' = IF WorkerRunning THEN Append(queue, ForceSync) ELSE queue ]_vars

\* a save_settings call has replaced the settings and left its ForceSync
\* behind the message already waiting for the running worker
C17_Witness ==
    /\ pc["c1"] = "returned" /\ loc["c1"].op = "save_settings" /\ result["c1"].ok
    /\ settings.git_sharing = DisabledConfig
    /\ WorkerRunning
    /\ queue = <<NoteChanged(S_Inbox), ForceSync>>

\* the messages a step has appended to the queue of the running worker
Enqueued == { queue'[i] : i \in (Len(queue) + 1)..Len(queue') }

\* C18 as stated: a note command that has created, rewritten, removed or
\* moved a note file of a folder emits NoteChanged for that folder: with
\* the worker running, the message is appended to the queue by the command.
C18_Original ==
    [][ (hist'.edited # hist.edited /\ WorkerRunning)
        => \A f \in hist'.edited.folders : NoteChanged(f) \in Enqueued ]_vars

\* a note has been moved from the shared folder to another one and both
\* folders have been notified, the source first
C18_Witness ==
    /\ WorkerRunning
    /\ hist.edited.folders = {S_Inbox, S_Work}
    /\ queue = <<NoteChanged(S_Inbox), NoteChanged(S_Work)>>

\* the statements of the worker that compute the periodic deadline
DeadlineLabels == {"bwl_init"} \cup AfterSyncLabels

\* C20: whenever the worker computes the periodic deadline, at its start
\* and after every sync, the deadline it sets is the moment of the
\* computation plus max(stored sync_interval_seconds, 60) seconds for every
\* stored value, 0 included (plus the default 300 s when the settings cannot
\* be read), hence at least 60 s later.
C20_PeriodicFloor ==
    [][ \A label \in DeadlineLabels :
          (Leaves("worker", label) /\ pc'["worker"] # "dead")
          => /\ worker'.next_periodic_sync
                  = now + (IF settings.ok
                           THEN Max(settings.git_sharing.sync_interval_seconds,
                                    MIN_PERIODIC_SYNC_SECONDS)
                           ELSE DEFAULT_PERIODIC_SYNC_SECONDS)
             /\ worker'.next_periodic_sync >= now + MIN_PERIODIC_SYNC_SECONDS ]_vars

\* with a stored interval of 0, the deadline computed at second 60 is
\* second 120
C20_Witness ==
    /\ settings.ok /\ settings.git_sharing.sync_interval_seconds = 0
    /\ pc["worker"] = "bwl_recv"
    /\ worker.next_periodic_sync = 2 * MIN_PERIODIC_SYNC_SECONDS

LoopLabels == {"bwl_recv", "bwl_debounce", "bwl_periodic"}

\* the outcomes of a background sync: each leaves its error in last_error,
\* the rest of the status as it is, and returns to the loop
OutcomeSteps ==
    /\ (Leaves("worker", "rsfs_load") /\ ~settings.ok)
       => /\ status' = SetLastError(status, <<"Failed to load settings: ", "io error">>)
          /\ pc'["worker"] \in AfterSyncLabels
    /\ (Leaves("worker", "rso_return") /\ ~result["worker"].ok)
       => /\ status' = [status EXCEPT !.last_error = result["worker"].err]
          /\ pc'["worker"] \in AfterSyncLabels
    /\ (Leaves("worker", "rso_return") /\ result["worker"].ok)
       => /\ status' \in {status, rebuild_note_index(status, FALSE)}
          /\ pc'["worker"] \in AfterSyncLabels

\* C16 as stated: whatever the outcome of a background sync, its error is
\* recorded in last_error only and the worker goes on with its loop, where
\* the next trigger calls run_sync_from_saved_settings again.
C16_Original ==
    [][ /\ OutcomeSteps
        /\ pc["worker"] \in AfterSyncLabels => pc'["worker"] \in AfterSyncLabels \cup LoopLabels
        /\ pc["worker"] \in LoopLabels => pc'["worker"] \in LoopLabels \cup {"rsfs_load"} ]_vars

\* C16 for the stored intervals the periodic deadline can hold: the worker
\* goes on with its loop after every outcome.
C16_LoopContinuesWithinRange ==
    [][ /\ OutcomeSteps
        /\ (pc["worker"] \in AfterSyncLabels /\ IsSome(checked_add(now, periodic_sync_interval)))
           => pc'["worker"] \in AfterSyncLabels \cup LoopLabels
        /\ pc["worker"] \in LoopLabels => pc'["worker"] \in LoopLabels \cup {"rsfs_load"} ]_vars

\* a background sync has failed and left its error, and the next ForceSync
\* has called run_sync_from_saved_settings again
C16_Witness ==
    /\ pc["worker"] = "rsfs_load"
    /\ IsSome(status.last_error)
    /\ settings.ok /\ settings.git_sharing = EnabledConfig

\* x is the input without the white space at its two ends
IsTrimOf(x, input) ==
    /\ x # <<>> => ~IsWhitespace(x[1]) /\ ~IsWhitespace(x[Len(x)])
    /\ \E a \in 0..Len(input), b \in 0..Len(input) :
         /\ a + b <= Len(input)
         /\ x = SubSeq(input, a + 1, Len(input) - b)
         /\ \A k \in 1..a : IsWhitespace(input[k])
         /\ \A k \in (Len(input) - b + 1)..Len(input) : IsWhitespace(input[k])

Blank(input) == \A k \in 1..Len(input) : IsWhitespace(input[k])

\* C19: for all inputs build_ad_hoc_config returns a configuration with
\* enabled = true, the folder, the remote URL and the branch without the
\* white space at their ends, and the branch "main" when the argument is
\* absent or blank; no step of a sync_now or prepare_repository call
\* changes the saved settings.
C19_AdHocConfig ==
    /\ [](probe # NoProbe
          => /\ probe.out.enabled
             /\ IsTrimOf(probe.out.shared_folder, probe.folder)
             /\ IsTrimOf(probe.out.remote_url, probe.remote_url)
             /\ IF IsSome(probe.branch) /\ ~Blank(Unwrap(probe.branch))
                THEN IsTrimOf(probe.out.branch, Unwrap(probe.branch))
                ELSE probe.out.branch = S_main)
    /\ [][ \A t \in Callers :
             (loc[t].op \in {"sync", "prepare"} \/ loc'[t].op \in {"sync", "prepare"})
             => settings' = settings ]_vars
    /\ [](\A t \in Callers :
            loc[t].op \in {"sync", "prepare"}
            => /\ cfg[t].enabled /\ cfg[t].shared_folder = S_Inbox
               /\ cfg[t].remote_url = S_url /\ cfg[t].branch = S_main)

\* a sync_now typed with blanks around the folder has synced the folder
\* Inbox to the branch main and returned; the saved configuration is still
\* the disabled one
C19_Witness ==
    \E t \in Callers :
        /\ pc[t] = "returned" /\ loc[t].op = "sync" /\ result[t].ok
        /\ cfg[t].enabled /\ cfg[t].shared_folder = S_Inbox
        /\ repo.head = Some(S_main) /\ ~repo.ahead
        /\ settings.git_sharing = DisabledConfig

\* C21: however the calls of start_background_worker interleave and however
\* often they are repeated, at most one worker loop is spawned and at most
\* one startup ForceSync is enqueued, by the call that spawned it; a call
\* that finds the sender set, at its first test or when it stores its own,
\* returns and changes nothing.
C21_OneWorker ==
    /\ [](hist.spawned <= 1 /\ hist.startups <= hist.spawned)
    /\ [][ \A s \in Starters :
             (pc'[s] \in {"sbw_lost", "sbw_returned"} /\ pc[s] \in {"sbw_get", "sbw_set"})
             => /\ sender /\ sender'
                /\ queue' = queue /\ hist' = hist /\ status' = status
                /\ pc'["worker"] = pc["worker"] ]_vars

\* both callers passed the first test; one has spawned the worker and sent
\* the startup ForceSync, the other has lost at the store and returned
C21_Witness ==
    /\ pc["s1"] = "sbw_lost" /\ pc["s2"] = "sbw_returned"
    /\ hist.spawned = 1 /\ hist.startups = 1
    /\ pc["worker"] \notin {"not_started", "dead"}

\* a manual sync_now has completed its pipeline, rebuilt the index and
\* returned Ok, and no pipeline has begun since: the status is its success
LaterSuccessReturned ==
    /\ status.last_error = None /\ ~status.syncing
    /\ \E t \in Callers : pc[t] = "returned" /\ loc[t].op = "sync" /\ result[t].ok

\* C22 as stated: when a background sync has failed in its pipeline and a
\* later attempt has completed successfully and returned, the error of the
\* earlier attempt is not written to last_error any more.
C22_Original ==
    [][ (/\ Leaves("worker", "rso_return")
         /\ ~result["worker"].ok /\ ~InvalidConfig(cfg["worker"])
         /\ LaterSuccessReturned)
        => status'.last_error = None ]_vars

\* the background sync failed and recorded its error before the manual
\* sync began; the manual sync has succeeded and returned, and last_error is
\* absent
C22_Witness ==
    /\ pc["worker"] = "bwl_after_force"
    /\ ~result["worker"].ok /\ ~InvalidConfig(cfg["worker"])
    /\ LaterSuccessReturned

\* the thread has run a command on the repository, past creating the folder
Mutating(t) == \E i \in DOMAIN cmds[t] : cmds[t][i] # "create_dir_all"

\* the thread is inside the bootstrap of git_prepare_repository
Preparing(t) == loc[t].op = "prepare" /\ pc[t] \in PipelineLabels

\* C23 as stated: while a sync pipeline is in flight (between the two
\* status updates of run_sync_operation) and has run commands on the
\* repository, no other thread is inside the bootstrap of
\* prepare_repository running commands on the same repository.
C23_Original ==
    \A t \in Threads, u \in Threads :
        ~(t # u /\ Preparing(t) /\ Mutating(t) /\ InFlight(u) /\ Mutating(u))

\* a prepare_repository call has bootstrapped the repository and returned
\* while the worker was in its loop, no sync in flight
C23_Witness ==
    /\ pc["c1"] = "returned" /\ loc["c1"].op = "prepare" /\ result["c1"].ok
    /\ Mutating("c1")
    /\ pc["worker"] \in LoopLabels /\ sync_mutex = None

Last(s) == s[Len(s)]

\* the outcomes of the first pull that lead from repo to repo'
FirstPullOutcomes == { g \in Git_pull(repo, FALSE) : g.repo = repo' }

\* the phrases of a missing remote branch or repository, in the cases git
\* prints them
TransientPhrases ==
    { "couldn't find remote ref", "Couldn't find remote ref",
      "no such ref was fetched", "not a git repository", "Not a git repository" }

TransientPullError(out) ==
    /\ out.launched /\ out.status_code # 0
    /\ \E i \in DOMAIN command_error_message(out) :
         command_error_message(out)[i] \in TransientPhrases

\* C24: when the first pull of pull_with_conflict_resolution fails with a
\* text that contains, in any case, "couldn't find remote ref", "no such
\* ref was fetched" or "not a git repository", the call returns success
\* after that one command: no second pull, no listing of conflicted files,
\* no file and no commit, the repository as it was, and the next step is
\* the push.
C24_TransientPullIsSuccess ==
    [][\A t \in Threads :
         (/\ Leaves(t, "pwcr_pull")
          /\ FirstPullOutcomes # {}
          /\ \A g \in FirstPullOutcomes : TransientPullError(g.out))
         => /\ pc'[t] = AfterPull(t)
            /\ pc'[t] \in {"pb_push", "pb_retry"}
            /\ cmds'[t] = Append(cmds[t], "git pull")
            /\ repo' = repo
            /\ result' = result]_vars

\* the remote has no such branch: the pull was the last command and the
\* push is next
C24_Witness ==
    /\ pc["c1"] = "pb_push"
    /\ cmds["c1"] # <<>> /\ Last(cmds["c1"]) = "git pull"
    /\ repo.git /\ ~repo.remote_branch

S_allow_unrelated == "git pull --allow-unrelated-histories"

\* the outcomes of the second pull that lead from repo to repo'
RetryOutcomes == { g \in Git_pull(repo, TRUE) : g.repo = repo' }

UnrelatedPullError(out) ==
    /\ out.launched /\ out.status_code # 0
    /\ \E i \in DOMAIN command_error_message(out) :
         command_error_message(out)[i] = "refusing to merge unrelated histories"

\* C25: the pull that allows unrelated histories is only ever the command
\* right after the first pull of a pull_with_conflict_resolution call, so a
\* call issues it at most once; it is issued exactly when the first pull
\* failed with "refusing to merge unrelated histories"; when it exits 0 the
\* call returns success, when it exits otherwise the call goes on to list
\* the conflicted files, and only a retry that could not be launched ends
\* the call otherwise.
C25_UnrelatedRetry ==
    /\ [](\A t \in Threads : \A i \in DOMAIN cmds[t] :
            cmds[t][i] = S_allow_unrelated => i > 1 /\ cmds[t][i - 1] = "git pull")
    /\ [][\A t \in Threads :
            Leaves(t, "pwcr_pull")
            => (pc'[t] = "pwcr_retry"
                <=> /\ FirstPullOutcomes # {}
                    /\ \A g \in FirstPullOutcomes : UnrelatedPullError(g.out))]_vars
    /\ [][\A t \in Threads :
            Leaves(t, "pwcr_retry")
            => /\ cmds'[t] = Append(cmds[t], S_allow_unrelated)
               /\ (\A g \in RetryOutcomes : g.out.launched /\ g.out.status_code = 0)
                  => pc'[t] = AfterPull(t) /\ result' = result
               /\ (\A g \in RetryOutcomes : g.out.launched /\ g.out.status_code # 0)
                  => pc'[t] = "list_conflicted_files" /\ result' = result
               /\ pc'[t] \notin {AfterPull(t), "list_conflicted_files"}
                  => \E g \in RetryOutcomes : ~g.out.launched]_vars

\* the first pull was refused for unrelated histories, the retry merged them
\* and the push is next
C25_Witness ==
    /\ pc["c1"] = "pb_push"
    /\ Len(cmds["c1"]) > 1 /\ Last(cmds["c1"]) = S_allow_unrelated
    /\ ~repo.unrelated /\ ~repo.merging

\* the retry has ended in a merge with conflicts
C25_RetryFailed ==
    /\ pc["c1"] = "list_conflicted_files"
    /\ Last(cmds["c1"]) = S_allow_unrelated /\ repo.merging

S_diff_unmerged == "git diff --diff-filter=U"

\* the outcomes of the listing that lead from repo to repo'
DiffOutcomes == { g \in Git_diff_unmerged(repo) : g.repo = repo' }

EmptyListing(out) ==
    out.launched /\ out.status_code = 0 /\ NonEmptyTrimmed(out.stdout) = <<>>

PullFailedError(t) ==
    /\ pc[t] = "rso_end" /\ ~result[t].ok
    /\ HasPrefix(Unwrap(result[t].err), <<"Failed to pull from origin/">>)

\* the index of the last first pull in the log of the attempt
LastPull(t) ==
    CHOOSE i \in DOMAIN cmds[t] :
        cmds[t][i] = "git pull" /\ \A j \in DOMAIN cmds[t] : cmds[t][j] = "git pull" => j <= i

\* C26: when the pull has failed for a reason that is not transient, or the
\* retry allowing unrelated histories has failed, and no path is listed as
\* conflicted, pull_with_conflict_resolution returns "Failed to pull from
\* origin/<branch>: " followed by the message of the first pull (not of the
\* retry); after the pull of that call only the retry and the listing have
\* run: no duplicate is written, no resolution commit attempted, nothing
\* pushed, and the attempt ends with that error.
C26_PullFailureReported ==
    /\ [][\A t \in Threads :
            (Leaves(t, "pwcr_pull") /\ pc'[t] \in {"pwcr_retry", "list_conflicted_files"})
            => \E g \in FirstPullOutcomes :
                 /\ g.out.launched /\ g.out.status_code # 0
                 /\ ~TransientPullError(g.out)
                 /\ loc'[t].pull_output = g.out]_vars
    /\ [][\A t \in Threads :
            pc[t] = "pwcr_retry" => loc'[t].pull_output = loc[t].pull_output]_vars
    /\ [][\A t \in Threads :
            (/\ Leaves(t, "list_conflicted_files")
             /\ DiffOutcomes # {}
             /\ \A g \in DiffOutcomes : EmptyListing(g.out))
            => /\ result'[t] = Err(<<"Failed to pull from origin/">>
                                   \o normalized_branch(cfg[t].branch) \o <<": ">>
                                   \o command_error_message(loc[t].pull_output))
               /\ pc'[t] = "rso_end"
               /\ repo' = repo
               /\ cmds'[t] = Append(cmds[t], S_diff_unmerged)]_vars
    /\ [](\A t \in Threads :
            PullFailedError(t)
            => /\ Last(cmds[t]) = S_diff_unmerged
               /\ \A i \in DOMAIN cmds[t] :
                    i > LastPull(t) => cmds[t][i] \in {S_allow_unrelated, S_diff_unmerged}
               /\ (Len(cmds[t]) > 1 /\ cmds[t][Len(cmds[t]) - 1] = S_allow_unrelated)
                  => contains(Unwrap(result[t].err),
                              "refusing to merge unrelated histories"))

\* the retry allowing unrelated histories has failed, nothing is listed as
\* conflicted, and the error of the attempt is that of the first pull
C26_Witness ==
    /\ PullFailedError("c1")
    /\ Len(cmds["c1"]) > 2
    /\ cmds["c1"][Len(cmds["c1"]) - 1] = S_allow_unrelated
    /\ contains(Unwrap(result["c1"].err), "refusing to merge unrelated histories")
    /\ Pushes("c1") = {}

\* a first pull that failed with no retry and no conflicted path
C26_PlainFailure ==
    /\ PullFailedError("c1")
    /\ cmds["c1"][Len(cmds["c1"]) - 1] = "git pull"

\* the duplicate path of the k-th conflicted path of the thread's call
DuplicateOf(t, k) ==
    conflict_duplicate_relative_path(loc[t].conflicted[k], loc[t].timestamp).path

\* the canonical path holds the remote (stage 3) version
Replaced(t, k) ==
    LET path == loc[t].conflicted[k]
    IN  /\ path \in DOMAIN repo.files
        /\ IsSome(loc[t].stages[path].s3)
        /\ repo.files[path] = loc[t].stages[path].s3

\* the commands of the attempt from the listing of the conflicted files on
SinceListing(t) ==
    LET start == CHOOSE i \in DOMAIN cmds[t] :
                     /\ cmds[t][i] = S_diff_unmerged
                     /\ \A j \in DOMAIN cmds[t] : cmds[t][j] = S_diff_unmerged => j <= i
    IN  SubSeq(cmds[t], start, Len(cmds[t]))

Count(s, entry) == Cardinality({ i \in DOMAIN s : s[i] = entry })

\* the thread's last listing has found conflicted paths: its locals are
\* those of the resolution that listing began
Resolving(t) ==
    /\ Logged(t, S_diff_unmerged)
    /\ Len(SinceListing(t)) > 1 \/ pc[t] = "rcd_read2"

\* C27: for every conflicted path the duplicate is written and staged
\* before the path is overwritten with the remote version: the checkout of
\* the remote version directly follows the write and the staging of that
\* path's duplicate, and in every state in which a conflicted path holds
\* the remote version its duplicate exists and has been staged.
C27_DuplicateFirst ==
    /\ [](\A t \in Threads : \A k \in DOMAIN loc[t].conflicted :
            Resolving(t) /\ Replaced(t, k)
            => /\ DuplicateOf(t, k) \in DOMAIN repo.files
               /\ k <= loc[t].i
               /\ Count(SinceListing(t), "write duplicate") >= k
               /\ Count(SinceListing(t), "git add duplicate") >= k)
    /\ [][\A t \in Threads :
            Leaves(t, "rcd_checkout")
            => /\ Len(cmds[t]) >= 2
               /\ cmds[t][Len(cmds[t]) - 1] = "write duplicate"
               /\ Last(cmds[t]) = "git add duplicate"
               /\ DuplicateOf(t, loc[t].i) \in DOMAIN repo.files
               /\ ~Replaced(t, loc[t].i)
               /\ cmds'[t] = Append(cmds[t], "git checkout --theirs")]_vars

\* the second of two conflicted paths has just been overwritten with the
\* remote version; both duplicates are in place
C27_Witness ==
    /\ pc["c1"] = "rcd_add" /\ loc["c1"].i = 2
    /\ Replaced("c1", 1) /\ Replaced("c1", 2)
    /\ DuplicateOf("c1", 1) \in DOMAIN repo.files
    /\ DuplicateOf("c1", 2) \in DOMAIN repo.files

RcdLoopLabels ==
    {"rcd_read2", "rcd_read3", "rcd_write", "rcd_add_dup", "rcd_checkout", "rcd_add"}

\* the outcomes of the resolution commit that lead from repo to repo'
CommitOutcomes == { g \in Git_commit(repo) : g.repo = repo' }

\* the commit exits non-zero with the words "nothing to commit"
NothingToCommit(out) ==
    /\ out.launched /\ out.status_code # 0
    /\ contains(command_error_message(out), "nothing to commit")

\* the command of the step the thread is at fails: it cannot be launched or
\* exits non-zero, the write fails, the path has no file name, or there is
\* no remote version to check out.  A stage that cannot be read is not
\* among them: the stage 3 read is the fallback of lines 553-558 and leaves
\* the duplicate empty.
ProcessingFails(t) ==
    /\ pc[t] \in RcdLoopLabels \ {"rcd_read3"}
    /\ pc'[t] # pc[t]
    /\ \/ repo'.faults < repo.faults
       \/ /\ pc[t] = "rcd_write"
          /\ ~conflict_duplicate_relative_path(CurrentPath(t), loc[t].timestamp).ok
       \/ /\ pc[t] = "rcd_checkout"
          /\ ~(CurrentPath(t) \in DOMAIN repo.unmerged
               /\ IsSome(repo.unmerged[CurrentPath(t)].s3))

\* C28: the resolution commit is attempted only when every conflicted path
\* has been processed in full (duplicate written and staged, remote version
\* checked out and staged); a failure while a path is processed ends the
\* call with an error with no resolution commit and no push since the
\* listing; and a resolution commit that exits non-zero with "nothing to
\* commit" is a success.
C28_CommitAfterAllPaths ==
    /\ [][\A t \in Threads :
            Leaves(t, "rcd_commit")
            => /\ loc[t].i = Len(loc[t].conflicted)
               /\ \A k \in DOMAIN loc[t].conflicted :
                    /\ Replaced(t, k)
                    /\ DuplicateOf(t, k) \in DOMAIN repo.files
                    /\ loc[t].conflicted[k] \notin DOMAIN repo.unmerged
               /\ \A entry \in {"write duplicate", "git add duplicate",
                                "git checkout --theirs", "git add conflicted"} :
                    Count(SinceListing(t), entry) = Len(loc[t].conflicted)
               /\ Last(cmds[t]) = "git add conflicted"
               /\ cmds'[t] = Append(cmds[t], "git commit resolution")]_vars
    /\ [][\A t \in Threads :
            /\ ProcessingFails(t) => ~result'[t].ok /\ pc'[t] = "rso_end"
            /\ (pc[t] \in RcdLoopLabels /\ pc'[t] \notin RcdLoopLabels \cup {"rcd_commit"})
               => /\ ~result'[t].ok /\ pc'[t] = "rso_end"
                  /\ Count(SinceListing(t), "git commit resolution") = 0
                  /\ Count(SinceListing(t), "git push") = 0
                  /\ \/ cmds'[t] = cmds[t]
                     \/ Last(cmds'[t]) \notin {"git commit resolution", "git push"}]_vars
    /\ [][\A t \in Threads :
            (/\ Leaves(t, "rcd_commit")
             /\ \E g \in CommitOutcomes : NothingToCommit(g.out))
            => \/ pc'[t] = AfterPull(t) /\ result' = result
               \/ \E g \in CommitOutcomes :
                    /\ ~NothingToCommit(g.out)
                    /\ result'[t] = Err(<<"Failed to finalize conflict resolution: ">>
                                        \o command_error_message(g.out))]_vars

\* two conflicted paths have been processed and the resolution commit has
\* been made; the push is next
C28_Witness ==
    /\ pc["c1"] = "pb_push"
    /\ Last(cmds["c1"]) = "git commit resolution"
    /\ Len(loc["c1"].conflicted) = 2
    /\ Count(SinceListing("c1"), "git add conflicted") = 2
    /\ ~repo.merging

\* the worker's periodic check finds the deadline reached and invokes a sync
PeriodicStarts == pc["worker"] = "bwl_periodic" /\ pc'["worker"] = "rsfs_load"

DebounceDue ==
    IsSome(worker.pending_deadline) /\ now >= Unwrap(worker.pending_deadline)

\* the worker is inside the run_sync_from_saved_settings call of the
\* debounce arm, or at the statement after it
InDebouncedSync ==
    /\ trigger["worker"] = "DebouncedSave"
    /\ pc["worker"] \in {"rsfs_load", "rso_return", "rso_unlock", "bwl_after_debounce"}
                        \cup PipelineLabels

\* C30: when the debounce check finds the deadline reached the worker calls
\* run_sync_from_saved_settings once, with DebouncedSave (one call for the
\* events processed since the previous debounced sync, the deadline as it
\* was throughout the call); and the statements after the call leave the
\* deadline cleared and pending_changes false, whether the sync succeeded,
\* failed or was skipped.
C30_DebounceCleared ==
    /\ [][Leaves("worker", "bwl_debounce")
          => IF DebounceDue
             THEN /\ pc'["worker"] = "rsfs_load"
                  /\ trigger'["worker"] = "DebouncedSave"
                  /\ hist.events >= 1
             ELSE pc'["worker"] = "bwl_periodic" /\ trigger' = trigger]_vars
    /\ [](InDebouncedSync
          => /\ DebounceDue
             /\ hist.events = 0 /\ hist.coalesced >= 1)
    /\ [][InDebouncedSync => worker'.pending_deadline \in {worker.pending_deadline, None}]_vars
    /\ [][Leaves("worker", "bwl_after_debounce")
          => /\ worker'.pending_deadline = None
             /\ ~status'.pending_changes
             /\ "DebouncedSave" \in hist'.iteration]_vars

\* git sharing was disabled while the deadline was pending: the debounced
\* sync was skipped, and the deadline and the flag are cleared
C30_Witness ==
    /\ pc["worker"] = "bwl_periodic"
    /\ "DebouncedSave" \in hist.iteration
    /\ settings.ok /\ ~settings.git_sharing.enabled
    /\ worker.pending_deadline = None /\ ~status.pending_changes
    /\ status.last_error = None /\ status.last_sync_at # Some(now)

\* the debounced sync has failed and returned
C30_SyncFailed ==
    /\ pc["worker"] = "bwl_after_debounce"
    /\ loc["worker"].op = "sync" /\ ~result["worker"].ok
    /\ status.pending_changes

\* the debounced sync has succeeded and returned
C30_SyncSucceeded ==
    /\ pc["worker"] = "bwl_after_debounce"
    /\ loc["worker"].op = "sync" /\ result["worker"].ok
    /\ status.pending_changes

\* the worker takes a NoteChanged event from its queue
ReceivesNoteChanged ==
    /\ pc["worker"] = "bwl_recv" /\ pc'["worker"] # "bwl_recv"
    /\ queue # <<>> /\ Head(queue).type = "NoteChanged"

\* C31: a NoteChanged event whose folder differs, after trimming, from the
\* configured shared folder, or that is processed while sync is disabled,
\* leaves the debounce deadline and the runtime status as they were and
\* calls no sync; an event changes them only when it is for the linked
\* folder with sync enabled, and then the deadline is the time of processing
\* plus 30 s and pending_changes is true.
C31_OnlyLinkedFolderEvents ==
    [][ReceivesNoteChanged
       => LET folder == Head(queue).folder
              config == settings.git_sharing
          IN  /\ pc'["worker"] = "bwl_debounce" /\ trigger' = trigger
              /\ (Trim(config.shared_folder) # Trim(folder) \/ ~config.enabled)
                 => worker' = worker /\ status' = status
              /\ (worker' # worker \/ status' # status)
                 => /\ Trim(config.shared_folder) = Trim(folder) /\ config.enabled
                    /\ worker' = [worker EXCEPT !.pending_deadline =
                                     Some(now + DEFAULT_DEBOUNCE_SECONDS)]
                    /\ status' = [status EXCEPT !.pending_changes = TRUE]]_vars

\* an event of the linked folder, processed at second 15 with sync enabled,
\* has set the deadline to second 45
C31_Witness ==
    /\ pc["worker"] = "bwl_debounce" /\ now = 15
    /\ settings.git_sharing.enabled
    /\ worker.pending_deadline = Some(now + DEFAULT_DEBOUNCE_SECONDS)
    /\ status.pending_changes

\* an event is at the head of the queue while sync is disabled and a
\* deadline is pending
C31_DisabledWhilePending ==
    /\ pc["worker"] = "bwl_recv" /\ queue # <<>> /\ Head(queue).type = "NoteChanged"
    /\ ~settings.git_sharing.enabled
    /\ IsSome(worker.pending_deadline) /\ status.pending_changes

\* C32: the periodic check is made in every iteration that calls no
\* debounced sync, whether or not a debounce deadline is pending, and it
\* calls a Periodic sync exactly when the periodic deadline is reached; so
\* with the worker in its loop and the periodic deadline within the time
\* observed, a sync is eventually invoked, however many NoteChanged events
\* keep replacing the debounce deadline.
C32_PeriodicIndependent ==
    /\ [][Leaves("worker", "bwl_debounce")
          => pc'["worker"] \in {"bwl_periodic", "rsfs_load"}]_vars
    /\ [][Leaves("worker", "bwl_periodic")
          => IF now >= worker.next_periodic_sync
             THEN pc'["worker"] = "rsfs_load" /\ trigger'["worker"] = "Periodic"
             ELSE pc'["worker"] = "bwl_recv"]_vars
    /\ (pc["worker"] \in LoopLabels /\ worker.next_periodic_sync <= MaxTime)
       ~> (pc["worker"] = "rsfs_load")

\* a Periodic sync has been called while a debounce deadline, replaced by a
\* later event, is pending and not yet reached
C32_Witness ==
    /\ pc["worker"] = "rsfs_load" /\ trigger["worker"] = "Periodic"
    /\ IsSome(worker.pending_deadline) /\ now < Unwrap(worker.pending_deadline)
    /\ hist.events >= 2

\* the commit exits non-zero with "nothing to commit" in some letter case
NothingToCommitAnyCase(out) ==
    /\ out.launched /\ out.status_code # 0
    /\ \E i \in DOMAIN command_error_message(out) :
         command_error_message(out)[i] \in {"nothing to commit", "Nothing to commit"}

\* C33 as stated, for the two commits: a commit of the sync or of the
\* conflict resolution that exits non-zero with a message containing
\* "nothing to commit" in any letter case is a success: the attempt goes on
\* to the pull, or past the resolution, with no error.
C33_Original ==
    [][\A t \in Threads :
         /\ (/\ Leaves(t, "clc_commit")
             /\ CommitOutcomes # {}
             /\ \A g \in CommitOutcomes : NothingToCommitAnyCase(g.out))
            => pc'[t] = "pwcr_pull" /\ result' = result
         /\ (/\ Leaves(t, "rcd_commit")
             /\ CommitOutcomes # {}
             /\ \A g \in CommitOutcomes : NothingToCommitAnyCase(g.out))
            => pc'[t] = AfterPull(t) /\ result' = result]_vars

\* the commit of the sync is about to run in a folder in which nothing is
\* left to commit
C33_Witness ==
    /\ pc["c1"] = "clc_commit"
    /\ repo.git /\ ~repo.dirty /\ ~repo.merging /\ DOMAIN repo.unmerged = {}

\* the entry of DEFAULT_GITIGNORE_ENTRIES is a line of the file, compared
\* after trimming
HasBaseline(file) ==
    /\ IsSome(file)
    /\ \E k \in DOMAIN Lines(Unwrap(file)) : Trim(Lines(Unwrap(file))[k]) = S_DS_Store

\* the lines of the ignore file, none when there is no file
FileLines(file) == IF IsSome(file) THEN Lines(Unwrap(file)) ELSE <<>>

\* ensure_repository_gitignore returns Ok
GitignoreSucceeds(t) ==
    /\ pc[t] = "ensure_repository_gitignore"
    /\ pc'[t] = "configure_origin_remote"

\* C34 as stated: when ensure_repository_gitignore succeeds the ignore file
\* holds the baseline entry and every line it held before, in the same
\* order; a file that already holds the baseline entry is not written.
C34_Original ==
    [][\A t \in Threads :
         GitignoreSucceeds(t)
         => /\ HasBaseline(repo'.gitignore)
            /\ Len(FileLines(repo'.gitignore)) >= Len(FileLines(repo.gitignore))
            /\ SubSeq(FileLines(repo'.gitignore), 1, Len(FileLines(repo.gitignore)))
                 = FileLines(repo.gitignore)
            /\ HasBaseline(repo.gitignore) => repo' = repo /\ cmds' = cmds]_vars

\* the file has been written with the baseline entry after two lines it
\* held before
C34_Witness ==
    /\ pc["c1"] = "configure_origin_remote"
    /\ cmds["c1"] # <<>> /\ Last(cmds["c1"]) = "write .gitignore"
    /\ FileLines(repo.gitignore) = <<S_tmp, <<>>, <<"x">>, S_DS_Store>>

\* the step issues the command
Issues(t, entry) == cmds'[t] = Append(cmds[t], entry)

\* the commands of the bootstrap that change the repository
BootstrapWrites ==
    { "git init -b", "git init", "git config user.name", "git config user.email",
      "write .gitignore", "git remote add", "git remote set-url" }

\* what ensure_repository_ready establishes for the configuration
Ready(r, config) ==
    /\ r.folder /\ r.git /\ r.user_name /\ r.user_email
    /\ read_to_string(r.gitignore) = r.gitignore /\ HasBaseline(r.gitignore)
    /\ r.origin = Some(Trim(config.remote_url))

\* ensure_repository_ready returns Ok
BootstrapSucceeds(t) ==
    /\ pc[t] = "erd_checkout" /\ pc'[t] # "erd_checkout" /\ result'[t].ok

\* C35: an identity value that is set is not written, and both are set when
\* the bootstrap succeeds; origin is added only when absent, its URL set
\* only when it differs from the configured one, and it is the configured
\* URL afterwards; a bootstrap that succeeds leaves the repository ready,
\* and in a ready repository every bootstrap step issues no init, no
\* identity write, no ignore-file write and no remote add or set-url: a
\* second call issues the reads and the checkout only.
C35_BootstrapIdempotent ==
    /\ [][\A t \in Threads :
            /\ Issues(t, "git config user.name") => ~repo.user_name
            /\ Issues(t, "git config user.email") => ~repo.user_email
            /\ repo.user_name => repo'.user_name
            /\ repo.user_email => repo'.user_email]_vars
    /\ [][\A t \in Threads :
            /\ Issues(t, "git remote add") => repo.origin = None
            /\ Issues(t, "git remote set-url")
                 => IsSome(repo.origin) /\ Unwrap(repo.origin) # Trim(cfg[t].remote_url)
            /\ (repo.origin = Some(Trim(cfg[t].remote_url)) /\ pc[t] # pc'[t]
                /\ loc[t].op = "prepare" /\ pc[t] # "idle")
                 => repo'.origin = repo.origin]_vars
    /\ [][\A t \in Threads : BootstrapSucceeds(t) => Ready(repo', cfg[t])]_vars
    /\ [][\A t \in Threads :
            (Ready(repo, cfg[t]) /\ loc[t].op = "prepare"
             /\ Len(cmds'[t]) = Len(cmds[t]) + 1)
            => Last(cmds'[t]) \notin BootstrapWrites]_vars
    /\ [][\A t \in Threads :
            (BootstrapSucceeds(t) /\ \A w \in BootstrapWrites : ~Logged(t, w))
            => cmds'[t] = << "create_dir_all", "create_dir_all",
                             "git config --get user.name",
                             "git config --get user.email",
                             "git remote get-url", "git checkout -B" >>]_vars

\* a second call has succeeded with the reads and the checkout only, on a
\* repository whose ignore file and origin an earlier call has written
C35_Witness ==
    /\ pc["c1"] = "gpr_return" /\ result["c1"].ok
    /\ cmds["c1"] = << "create_dir_all", "create_dir_all",
                       "git config --get user.name", "git config --get user.email",
                       "git remote get-url", "git checkout -B" >>
    /\ repo.dirty
    /\ repo.gitignore = Some(S_tmp \o <<"\n">> \o S_DS_Store \o <<"\n">>)

\* the worker takes a qualifying NoteChanged event from the channel
QualifyingEventTaken ==
    /\ pc["worker"] = "bwl_recv" /\ queue # <<>>
    /\ Head(queue).type = "NoteChanged"
    /\ is_folder_linked_for_sync(Head(queue).folder)

\* C36: whenever the worker is between two iterations of its loop,
\* pending_changes is true exactly when a debounce deadline is set; the two
\* change only together, set by the worker taking a qualifying NoteChanged
\* event and cleared by the worker after its debounced sync has returned;
\* no step of a ForceSync, periodic or manual sync or of a status query
\* writes either.
C36_PendingIffDeadline ==
    /\ [](pc["worker"] = "bwl_recv"
          => (status.pending_changes <=> IsSome(worker.pending_deadline)))
    /\ [][(status'.pending_changes # status.pending_changes
           \/ worker'.pending_deadline # worker.pending_deadline)
          => \/ /\ QualifyingEventTaken
                /\ status'.pending_changes /\ IsSome(worker'.pending_deadline)
             \/ /\ pc["worker"] = "bwl_after_debounce"
                /\ ~status'.pending_changes /\ worker'.pending_deadline = None]_vars

\* between two iterations a change is pending with its deadline set, after
\* a sync has succeeded at 45 s or later and while a status query is being
\* answered
C36_Witness ==
    /\ pc["worker"] = "bwl_recv"
    /\ status.pending_changes /\ IsSome(worker.pending_deadline)
    /\ IsSome(status.last_sync_at) /\ Unwrap(status.last_sync_at) >= 45
    /\ pc["c1"] = "ggs_status"

\* the worker is inside run_sync_from_saved_settings
WorkerServing ==
    pc["worker"] \notin LoopLabels \cup {"not_started", "bwl_init", "dead"}

\* a NoteChanged event of the linked folder waits in the channel
QualifyingEventQueued ==
    \E i \in DOMAIN queue :
        queue[i].type = "NoteChanged" /\ is_folder_linked_for_sync(queue[i].folder)

\* the worker has just set the debounce deadline for an event
EventJustProcessed ==
    /\ pc["worker"] = "bwl_debounce"
    /\ status.pending_changes
    /\ worker.pending_deadline = Some(now + DEFAULT_DEBOUNCE_SECONDS)

\* C37: a message leaves the channel only when the worker takes it at the
\* head; taking a qualifying NoteChanged event sets pending_changes and a
\* deadline 30 s ahead; an event waiting while the worker is inside a sync,
\* the debounced one included, is followed by the worker processing an
\* event after the sync has returned; and with sync enabled a processed
\* event is followed by a further sync invocation.
C37_EventNotLost ==
    /\ [][queue' = queue
          \/ (\E msg \in {ForceSync, NoteChanged(S_Inbox)} : queue' = Append(queue, msg))
          \/ (pc["worker"] = "bwl_recv" /\ pc'["worker"] # "bwl_recv"
              /\ queue # <<>> /\ queue' = Tail(queue))]_vars
    /\ [][(QualifyingEventTaken /\ pc'["worker"] # "bwl_recv")
          => /\ status'.pending_changes
             /\ worker'.pending_deadline = Some(now + DEFAULT_DEBOUNCE_SECONDS)
             /\ pc'["worker"] = "bwl_debounce"]_vars
    /\ (WorkerServing /\ QualifyingEventQueued) ~> EventJustProcessed
    /\ (EventJustProcessed /\ settings.git_sharing.enabled /\ now <= MaxTime)
         ~> (pc["worker"] = "rsfs_load")

\* an event has been processed at the instant the debounced sync returned:
\* the flag and the deadline that sync cleared are set again
C37_Witness ==
    /\ EventJustProcessed
    /\ hist.coalesced >= 1 /\ hist.events = 1
    /\ hist.last_return = Some(now)

\* pending_changes and the debounce deadline are as they were
PendingKept ==
    /\ status'.pending_changes = status.pending_changes
    /\ worker'.pending_deadline = worker.pending_deadline

\* C38: no step of a sync the worker runs for a ForceSync message or for the
\* periodic deadline, from its invocation to the reset of the periodic
\* deadline that follows it, and no step of a command a caller runs, manual
\* sync_now included, changes pending_changes or the debounce deadline,
\* whether the sync succeeds or not; and a debounce check that finds the
\* deadline reached calls the debounced sync.
C38_SyncKeepsPending ==
    /\ [][(WorkerServing /\ trigger["worker"] \in {"Startup", "Periodic"}
           /\ pc'["worker"] # pc["worker"]) => PendingKept]_vars
    /\ [][\A t \in Callers : pc'[t] # pc[t] => PendingKept]_vars
    /\ [][(Leaves("worker", "bwl_debounce") /\ IsSome(worker.pending_deadline)
           /\ now >= Unwrap(worker.pending_deadline))
          => pc'["worker"] = "rsfs_load" /\ trigger'["worker"] = "DebouncedSave"]_vars

\* the sync of a ForceSync has succeeded and left nothing uncommitted or
\* unpushed, and the change is still pending with its deadline
C38_Witness ==
    /\ pc["worker"] = "bwl_after_force" /\ result["worker"].ok
    /\ status.last_sync_at = Some(now) /\ ~repo.dirty /\ ~repo.ahead
    /\ status.pending_changes /\ IsSome(worker.pending_deadline)

\* the saved configuration has enabled = false
SavedDisabled == settings.ok /\ ~settings.git_sharing.enabled

\* the step is one of the pipeline on thread t: it takes the sync mutex,
\* issues a command, rebuilds the index or writes the result of a sync into
\* the status
PipelineEffect(t) ==
    /\ pc'[t] # pc[t]
    /\ \/ sync_mutex' = Some(t) /\ sync_mutex # Some(t)
       \/ cmds'[t] # cmds[t] /\ cmds'[t] # <<>>
       \/ loc'[t].rebuilt /\ ~loc[t].rebuilt
       \/ status'.syncing # status.syncing
       \/ status'.last_sync_at # status.last_sync_at
       \/ status'.last_error # status.last_error

\* C39 as stated: while the saved configuration has enabled = false the
\* worker holds no sync mutex, has issued no git command and is at no step
\* of the pipeline.
C39_Original ==
    SavedDisabled
    => /\ sync_mutex # Some("worker")
       /\ cmds["worker"] = <<>>
       /\ pc["worker"] \notin PipelineLabels \cup {"rso_begin", "rso_end", "rso_unlock"}

\* C39, amended: a background trigger served while the saved configuration is
\* disabled returns at once: run_sync_from_saved_settings leaves the sync
\* mutex, the command log, the repository, the index and the whole status
\* as they are; the worker enters the pipeline only with a configuration it
\* read as enabled, so while sync is disabled a pipeline step of the worker
\* belongs to a sync begun before sync was disabled; a manual sync_now runs
\* with enabled = true whatever the saved configuration.
C39_DisabledSkipsPipeline ==
    /\ [][(Leaves("worker", "rsfs_load") /\ SavedDisabled)
          => /\ pc'["worker"] = AfterSync(trigger["worker"])
             /\ UNCHANGED <<status, sync_mutex, cmds, repo, loc, result, cfg>>]_vars
    /\ [][(Leaves("worker", "rsfs_load") /\ pc'["worker"] = "rso_validate")
          => settings.ok /\ settings.git_sharing.enabled
             /\ cfg'["worker"] = settings.git_sharing]_vars
    /\ [][(SavedDisabled /\ pc["worker"] # "not_started" /\ PipelineEffect("worker"))
          => /\ pc["worker"] \notin LoopLabels \cup AfterSyncLabels \cup {"rsfs_load"}
             /\ loc["worker"].op = "sync" /\ cfg["worker"].enabled]_vars
    /\ [](\A t \in Callers : loc[t].op = "sync" => cfg[t].enabled)

\* the debounce trigger has been served with sync disabled and nothing done,
\* while a manual sync_now holds the sync mutex and has issued commands
C39_Witness ==
    /\ SavedDisabled
    /\ pc["worker"] = "bwl_after_debounce"
    /\ cmds["worker"] = <<>> /\ ~loc["worker"].rebuilt
    /\ sync_mutex = Some("c1") /\ cmds["c1"] # <<>>

\* the labels of run_sync_operation at which the thread holds the sync mutex
HoldingLabels == PipelineLabels \cup {"rso_begin", "rso_end", "rso_unlock"}

(* The worker serving its startup ForceSync and a manual caller contend    *)
(* for the sync mutex on a linked repository whose remote moves: rejected  *)
(* pushes, unrelated histories and conflicts. Every git call returns, so a *)
(* thread inside run_sync_operation moves on, and a thread waiting for the *)
(* mutex gets it when it is free again and again.                          *)

ContendConflicts ==
    ConflictSets({P_a_md}, { Stages(Some(B_local), Some(B_remote)),
                             Stages(None, Some(B_remote)) })

\* the linked repository with uncommitted notes and a remote whose history
\* is not the local one
ContendRepos ==
    { [Linked EXCEPT !.dirty = TRUE, !.behind = TRUE, !.unrelated = TRUE] }

InitContend == InitWith({EnabledConfig}, ContendRepos, ContendConflicts, 0)

WorkerThread ==
    \/ start_background_worker
    \/ bwl_init \/ bwl_recv \/ bwl_debounce \/ bwl_periodic
    \/ rsfs_load \/ rsfs_result \/ bwl_after_force
    \/ PipelineSteady("worker") \/ PipelineMerge("worker")

\* the caller's steps after run_sync_operation has returned
CallerReturn == gsn_result("c1") \/ command_return("c1")

CallerThread ==
    CallerReturn \/ PipelineSteady("c1") \/ PipelineMerge("c1")

\* the labels at which thread t is inside run_sync_operation and not
\* waiting for the mutex: it is validating, or it holds the mutex
RunningLabels == HoldingLabels \cup {"rso_validate"}

\* weak fairness of the steps of thread t inside run_sync_operation, written
\* with the states in which such a step can be taken: the thread does not
\* stay at one of these labels forever, the call it is making returns
Advances(t) ==
    \/ []<>(pc[t] \notin RunningLabels)
    \/ []<><<pc'[t] # pc[t]>>_vars

NextContend ==
    \/ WorkerThread
    \/ CallerThread
    \/ git_sync_now("c1", S_Inbox, S_url, None)
    \/ remote_pushed

SpecContend ==
    /\ InitContend /\ [][NextContend]_vars
    /\ WF_vars(start_background_worker \/ WorkerLoop) /\ WF_vars(CallerReturn)
    /\ \A t \in Threads : Advances(t) /\ SF_vars(rso_lock(t))

\* the commands of one pull_with_conflict_resolution pass over n paths: two
\* pulls, the listing, six commands for each path and the commit
PassCommands(n) == 4 + 6 * n

====
